---- MODULE Spec2Model ----
(***************************************************************************)
(* Model of the index subsystem of dgit (src/git/index.go): the in-memory  *)
(* Index (sorted entry list, version, entry count), its mutation           *)
(* operations, and the binary codec WriteIndex / ReadIndex.                *)
(*                                                                         *)
(* Paths and files are sequences of bytes (naturals below 256).            *)
(***************************************************************************)
EXTENDS Integers, Sequences, FiniteSets, TLC

VARIABLES Objects, Version, NumberIndexEntries, last, indexFile, indexStat, loaded,
          worktree, run, refFile, refGot, stdin, writer, envFile

vars == <<Objects, Version, NumberIndexEntries, last, indexFile, indexStat, loaded,
          worktree, run, refFile, refGot, stdin, writer, envFile>>

\* the working tree and the record of a checkout-index call, the symbolic-ref
\* file and the value read from it, the stream opts.Stdin, the process that
\* is writing the index file, the file GIT_INDEX_FILE names: untouched by
\* the calls on the index
others == <<worktree, run, refFile, refGot, stdin, writer, envFile>>

\* what the calls on one index, one working tree or one symbolic ref leave
\* alone
apart == <<stdin, writer, envFile>>

----------------------------------------------------------------------------
(* Bounds of the model *)

\* largest number of entries an index is grown to by the modelled calls
MaxEntries == 2
\* largest merge stage the modelled calls pass (the type allows 0..3)
MaxStage == 2

----------------------------------------------------------------------------
(* Bytes, paths and small helpers *)

Min(S) == CHOOSE x \in S : \A y \in S : x <= y

\* strings.HasPrefix
HasPrefix(s, prefix) ==
    /\ Len(prefix) <= Len(s)
    /\ SubSeq(s, 1, Len(prefix)) = prefix

Slash == 47

PathA == <<97>>
PathAB == <<97, 47, 98>>
PathB == <<98>>

Paths == {PathA, PathAB, PathB}

\* strings.HasPrefix(string(child), string(parent)+"/")
IsUnder(child, parent) == HasPrefix(child, parent \o <<Slash>>)

Related(p, q) == IsUnder(p, q) \/ IsUnder(q, p)

----------------------------------------------------------------------------
(* Entry modes, hashes, stages *)

ModeBlob == 33188
ModeSymlink == 40960

Stage0 == 0

\* a Sha1 is a 20 byte array; the modelled hashes differ in their last byte
Sha1Of(k) == <<>> \o [i \in 1..20 |-> IF i = 20 THEN k ELSE 0]

\* an int64 (FixedIndexEntry.Mtime) as its high and low 32 bit words
I64(n) == <<0, n>>

\* V3IndexExtensions == nil
NoExt == -1

NoErr == [kind |-> "none", path |-> <<>>]
Err(kind, path) == [kind |-> kind, path |-> path]

\* IndexEntry.Stage
Stage(ie) == (ie.Flags \div 4096) % 4

\* FixedIndexEntry.ExtendedFlag
ExtendedFlag(i) == (i.Flags \div 16384) % 2 = 1

\* FixedIndexEntry.SetExtendedFlag
SetExtendedFlag(i, val) ==
    IF val
    THEN IF ExtendedFlag(i) THEN i ELSE [i EXCEPT !.Flags = @ + 16384]
    ELSE IF ExtendedFlag(i) THEN [i EXCEPT !.Flags = @ - 16384] ELSE i

\* IndexEntry.SkipWorktree
SkipWorktree(ie) ==
    IF ~ExtendedFlag(ie) \/ ie.Ext = NoExt
    THEN FALSE
    ELSE (ie.Ext \div 16384) % 2 = 1

\* IndexEntry.SetSkipWorktree
EntrySetSkipWorktree(ie, value) ==
    LET e1 == IF value THEN SetExtendedFlag(ie, TRUE) ELSE ie
        e2 == IF e1.Ext = NoExt THEN [e1 EXCEPT !.Ext = 0] ELSE e1
        bit == (e2.Ext \div 16384) % 2 = 1
    IN  IF value
        THEN IF bit THEN e2 ELSE [e2 EXCEPT !.Ext = @ + 16384]
        ELSE IF bit THEN [e2 EXCEPT !.Ext = @ - 16384] ELSE e2

----------------------------------------------------------------------------
(* The file a path names in the working tree, as seen by one call *)

FileAbsent == [kind |-> "absent", mtime |-> I64(0), size |-> 0, ctime |-> 0,
               ctimenano |-> 0, ino |-> 0, content |-> 0]
FileNoAccess == [FileAbsent EXCEPT !.kind = "noaccess"]
FileRegular == [kind |-> "file", mtime |-> I64(3), size |-> 1, ctime |-> 3,
                ctimenano |-> 5, ino |-> 7, content |-> 1]
FileSymlink == [kind |-> "symlink", mtime |-> I64(3), size |-> 2, ctime |-> 3,
                ctimenano |-> 5, ino |-> 7, content |-> 2]
FileDir == [FileRegular EXCEPT !.kind = "dir"]

\* File.Exists: os.Stat fails with IsNotExist only for a missing file
Exists(f) == f.kind # "absent"

\* File.Lstat / File.MTime succeed
LstatOk(f) == f.kind \in {"file", "symlink", "dir"}

\* FixedIndexEntry.RefreshStat
RefreshStat(i, f) ==
    IF ~LstatOk(f)
    THEN [err |-> Err("stat", i.PathName), entry |-> i]
    ELSE [err |-> NoErr,
          entry |-> [i EXCEPT !.Mtime = f.mtime, !.Fsize = f.size,
                              !.Ctime = f.ctime, !.Ctimenano = f.ctimenano,
                              !.Ino = f.ino]]

----------------------------------------------------------------------------
(* Sort order *)

\* ByPath.Less with the prefix case answered the wrong way round
Less_PrefixLast(gi, gj) ==
    IF gi.PathName = gj.PathName
    THEN Stage(gi) < Stage(gj)
    ELSE LET ibytes == gi.PathName
             jbytes == gj.PathName
             stop == {k \in 1..Len(ibytes) :
                         k > Len(jbytes) \/ ibytes[k] # jbytes[k]}
         IN  IF stop = {}
             THEN FALSE
             ELSE LET k == Min(stop)
                  IN  IF k > Len(jbytes) THEN FALSE ELSE ibytes[k] < jbytes[k]

\* ByPath.Less on two entries
Less(gi, gj) ==
    IF gi.PathName = gj.PathName
    THEN Stage(gi) < Stage(gj)
    ELSE LET ibytes == gi.PathName
             jbytes == gj.PathName
             stop == {k \in 1..Len(ibytes) :
                         k > Len(jbytes) \/ ibytes[k] # jbytes[k]}
         IN  IF stop = {}
             THEN TRUE
             ELSE LET k == Min(stop)
                  IN  IF k > Len(jbytes) THEN FALSE ELSE ibytes[k] < jbytes[k]

Insert(e, s) ==
    LET before == {k \in 1..Len(s) : Less(e, s[k])}
        pos == IF before = {} THEN Len(s) + 1 ELSE Min(before)
    IN  SubSeq(s, 1, pos - 1) \o <<e>> \o SubSeq(s, pos, Len(s))

RECURSIVE SortByPath(_)
\* sort.Sort(ByPath(objs))
SortByPath(objs) ==
    IF objs = <<>> THEN <<>>
    ELSE Insert(objs[Len(objs)], SortByPath(SubSeq(objs, 1, Len(objs) - 1)))

\* the entries are as sort.Sort(ByPath(objs)) leaves them
InOrder(objs) == \A k \in 1..(Len(objs) - 1) : Less(objs[k], objs[k + 1])

----------------------------------------------------------------------------
(* Index operations; an index is [Objects, Version, NumberIndexEntries].   *)
(* NumberIndexEntries is a uint32; the modelled calls keep it far below     *)
(* 2^32 and RemoveFile only decrements it after finding an entry.          *)

\* "DIRC"
Signature == <<68, 73, 82, 67>>

NewIndex == [Signature |-> Signature, Objects |-> <<>>, Version |-> 2,
             NumberIndexEntries |-> 0]

\* Index.RemoveUnmergedStages that keeps the stage 1-3 entries
RemoveUnmergedStages_KeepAll(g, path) ==
    [g EXCEPT !.NumberIndexEntries = Len(g.Objects)]

\* Index.RemoveUnmergedStages
RemoveUnmergedStages(g, path) ==
    LET newobjects == SelectSeq(g.Objects,
                          LAMBDA entry : ~(entry.PathName = path /\ Stage(entry) # Stage0))
    IN  [g EXCEPT !.Objects = newobjects,
                  !.NumberIndexEntries = Len(newobjects)]

\* replaceEntriesCheck that drops the entries under the path only, not the
\* parent entries of the path
replaceEntriesCheck_ChildrenOnly(g, path, stage, opts) ==
    IF stage # Stage0
    THEN [err |-> NoErr, idx |-> g]
    ELSE LET hit == {k \in 1..Len(g.Objects) : Related(g.Objects[k].PathName, path)}
         IN  IF hit # {} /\ ~opts.Replace
             THEN LET e == g.Objects[Min(hit)]
                  IN  [err |-> Err(IF IsUnder(e.PathName, path) THEN "existing" ELSE "parent",
                                   e.PathName),
                       idx |-> g]
             ELSE [err |-> NoErr,
                   idx |-> [g EXCEPT !.Objects =
                              SelectSeq(g.Objects, LAMBDA e : ~IsUnder(e.PathName, path))]]

\* the closure replaceEntriesCheck of Index.AddStage
replaceEntriesCheck(g, path, stage, opts) ==
    IF stage # Stage0
    THEN [err |-> NoErr, idx |-> g]
    ELSE LET hit == {k \in 1..Len(g.Objects) : Related(g.Objects[k].PathName, path)}
         IN  IF hit # {} /\ ~opts.Replace
             THEN LET e == g.Objects[Min(hit)]
                  IN  [err |-> Err(IF IsUnder(e.PathName, path) THEN "existing" ELSE "parent",
                                   e.PathName),
                       idx |-> g]
             ELSE [err |-> NoErr,
                   idx |-> [g EXCEPT !.Objects =
                              SelectSeq(g.Objects, LAMBDA e : ~Related(e.PathName, path))]]

\* the flags of a new entry, Index.AddStage
NewFlags(path, stage) ==
    stage * 4096 + (IF Len(path) >= 4095 THEN 4095 ELSE Len(path))

NewEntry(path, mode, s, stage, size, mtime) ==
    [Ctime |-> 0, Ctimenano |-> 0, Mtime |-> mtime, Dev |-> 0, Ino |-> 0,
     Mode |-> mode, Uid |-> 0, Gid |-> 0, Fsize |-> size, Sha1 |-> s,
     Flags |-> NewFlags(path, stage), Ext |-> 0, PathName |-> path]

\* Index.AddStage up to its return, without the deferred call
AddStageBody(g, path, mode, s, stage, size, mtime, opts, f) ==
    LET found == {k \in 1..Len(g.Objects) :
                     g.Objects[k].PathName = path /\ Stage(g.Objects[k]) = stage}
    IN  IF found # {}
        THEN LET chk == replaceEntriesCheck(g, path, stage, opts)
             IN  IF chk.err # NoErr
                 THEN [err |-> chk.err, idx |-> g]
                 ELSE LET objs == chk.idx.Objects
                          k == Min({j \in 1..Len(objs) :
                                       objs[j].PathName = path /\ Stage(objs[j]) = stage})
                          r == IF Exists(f) /\ stage = Stage0
                               THEN RefreshStat(objs[k], f)
                               ELSE [err |-> NoErr, entry |-> objs[k]]
                      IN  IF r.err # NoErr
                          THEN [err |-> r.err, idx |-> chk.idx]
                          ELSE [err |-> NoErr,
                                idx |-> [chk.idx EXCEPT !.Objects[k] =
                                           [r.entry EXCEPT !.Sha1 = s, !.Mtime = mtime,
                                                           !.Fsize = size]]]
        ELSE IF ~opts.Add
        THEN [err |-> Err("notfound", path), idx |-> g]
        ELSE LET chk == replaceEntriesCheck(g, path, stage, opts)
             IN  IF chk.err # NoErr
                 THEN [err |-> chk.err, idx |-> g]
                 ELSE LET newentry == RefreshStat(NewEntry(path, mode, s, stage, size, mtime), f).entry
                      IN  [err |-> NoErr,
                           idx |-> [chk.idx EXCEPT
                                      !.Objects = SortByPath(Append(chk.idx.Objects, newentry)),
                                      !.NumberIndexEntries = g.NumberIndexEntries + 1]]

\* Index.AddStage: the body, then the deferred RemoveUnmergedStages
AddStage(g, path, mode, s, stage, size, mtime, opts, f) ==
    LET r == AddStageBody(g, path, mode, s, stage, size, mtime, opts, f)
    IN  IF stage = Stage0
        THEN [err |-> r.err, idx |-> RemoveUnmergedStages(r.idx, path)]
        ELSE r

\* Index.RemoveFile that leaves the entry count as it was
RemoveFile_NoCount(g, file) ==
    LET found == {i \in 1..Len(g.Objects) : g.Objects[i].PathName = file}
    IN  IF found = {}
        THEN g
        ELSE LET i == Min(found)
             IN  [g EXCEPT !.Objects = SubSeq(g.Objects, 1, i - 1)
                                          \o SubSeq(g.Objects, i + 1, Len(g.Objects))]

\* Index.RemoveFile
RemoveFile(g, file) ==
    LET found == {i \in 1..Len(g.Objects) : g.Objects[i].PathName = file}
    IN  IF found = {}
        THEN g
        ELSE LET i == Min(found)
             IN  [g EXCEPT !.Objects = SubSeq(g.Objects, 1, i - 1)
                                          \o SubSeq(g.Objects, i + 1, Len(g.Objects)),
                           !.NumberIndexEntries = g.NumberIndexEntries - 1]

\* Index.SetSkipWorktree
SetSkipWorktree(g, path, value) ==
    LET found == {i \in 1..Len(g.Objects) : g.Objects[i].PathName = path}
        bump(h) == IF h.Version <= 2 /\ value THEN [h EXCEPT !.Version = 3] ELSE h
    IN  IF found = {}
        THEN [err |-> NoErr, idx |-> bump(g)]
        ELSE LET i == Min(found)
             IN  IF Stage(g.Objects[i]) # Stage0
                 THEN [err |-> Err("unmerged", path), idx |-> g]
                 ELSE [err |-> NoErr,
                       idx |-> bump([g EXCEPT !.Objects[i] =
                                       EntrySetSkipWorktree(g.Objects[i], value)])]

\* git.expandGitTreeIntoIndexes (not part of the sources): the entries of a
\* tree, one stage 0 entry per blob, in tree order, or an error
TreeEntry(path, k) ==
    [NewEntry(path, ModeBlob, Sha1Of(k), Stage0, k, I64(0)) EXCEPT !.Ext = NoExt]

Trees == {<<>>, <<TreeEntry(PathAB, 1), TreeEntry(PathB, 2)>>}

\* Index.ResetIndex; tree holds the entries of the expanded tree and
\* expands tells whether the expansion succeeds
ResetIndex(g, tree, expands) ==
    IF ~expands
    THEN [err |-> Err("tree", <<>>), idx |-> g]
    ELSE [err |-> NoErr,
          idx |-> [g EXCEPT !.NumberIndexEntries = Len(tree),
                            !.Objects = tree]]

\* Client.WriteObject("blob", contents): the hash of the stored blob
BlobHash(content) == Sha1Of(content)

\* Index.AddFile; storeOk tells whether Client.WriteObject succeeds
AddFile(g, name, f, storeOk, opts) ==
    IF ~LstatOk(f)
    THEN [err |-> Err("stat", name), idx |-> g]
    ELSE IF f.kind = "dir"
    THEN [err |-> Err("isdir", name), idx |-> g]
    ELSE IF f.kind = "symlink"
    THEN AddStage(g, name, ModeSymlink,
                  IF storeOk THEN BlobHash(f.content) ELSE Sha1Of(0),
                  Stage0, f.size, f.mtime, opts, f)
    ELSE IF ~storeOk
    THEN [err |-> Err("store", name), idx |-> g]
    ELSE AddStage(g, name, ModeBlob, BlobHash(f.content), Stage0, f.size, f.mtime, opts, f)

----------------------------------------------------------------------------
(* The codec: big-endian encoding, WriteIndex, ReadIndexEntry, ReadIndex.  *)
(* A uint32 at or above 2^31 is held as that value minus 2^32.             *)

\* binary.BigEndian on a uint16
BE16(n) == <<(n \div 256) % 256, n % 256>>

\* binary.BigEndian on a uint32
BE32(n) ==
    LET low == IF n < 0 THEN (n + 2147483647) + 1 ELSE n
        top == (low \div 16777216) + (IF n < 0 THEN 128 ELSE 0)
    IN  <<top, (low \div 65536) % 256, (low \div 256) % 256, low % 256>>

\* binary.BigEndian on an int64
BE64(m) == BE32(m[1]) \o BE32(m[2])

DE16(b) == b[1] * 256 + b[2]

DE32(b) ==
    LET low == ((b[1] % 128) * 16777216) + (b[2] * 65536) + (b[3] * 256) + b[4]
    IN  IF b[1] >= 128 THEN (low - 2147483647) - 1 ELSE low

DE64(b) == <<DE32(SubSeq(b, 1, 4)), DE32(SubSeq(b, 5, 8))>>

NameMask == 4095

\* sha1.Sum of the bytes written so far: 20 bytes that depend on the length
\* of the data and on its content
Sha1Sum(data) ==
    <<>> \o [i \in 1..20 |-> (Len(data) + i * data[((i * 7) % Len(data)) + 1]) % 256]

Zeros(n) == <<>> \o [i \in 1..n |-> 0]

\* binary.Write of a FixedIndexEntry
EncodeFixed(e) ==
    BE32(e.Ctime) \o BE32(e.Ctimenano) \o BE64(e.Mtime) \o BE32(e.Dev)
    \o BE32(e.Ino) \o BE32(e.Mode) \o BE32(e.Uid) \o BE32(e.Gid)
    \o BE32(e.Fsize) \o e.Sha1 \o BE16(e.Flags)

\* the padding of WriteIndex rounded up to the next multiple of 8 from the
\* entry length alone, which leaves a name that ends on the boundary unterminated
WritePadding_NoNul(entry) ==
    LET sz == 62 + (IF ExtendedFlag(entry) THEN 2 ELSE 0)
    IN  (8 - ((sz + Len(entry.PathName)) % 8)) % 8

\* the padding WriteIndex puts after the name of an entry
WritePadding(entry) ==
    LET sz == 82 + (IF ExtendedFlag(entry) THEN 2 ELSE 0)
    IN  8 - ((sz + Len(entry.PathName) + 4) % 8)

\* one iteration of the loop of WriteIndex: the bytes of an entry, or none
\* and InvalidIndex
WriteEntry(entry, version) ==
    LET fixed == EncodeFixed(entry)
    IN  IF ExtendedFlag(entry) /\ (version = 2 \/ entry.Ext = NoExt)
        THEN [err |-> Err("InvalidIndex", <<>>), bytes |-> fixed]
        ELSE [err |-> NoErr,
              bytes |-> fixed
                        \o (IF ExtendedFlag(entry) THEN BE16(entry.Ext) ELSE <<>>)
                        \o entry.PathName
                        \o Zeros(WritePadding(entry))]

RECURSIVE WriteEntries(_, _, _)
WriteEntries(objs, version, k) ==
    IF k > Len(objs)
    THEN [err |-> NoErr, bytes |-> <<>>]
    ELSE LET w == WriteEntry(objs[k], version)
         IN  IF w.err # NoErr
             THEN w
             ELSE LET rest == WriteEntries(objs, version, k + 1)
                  IN  [err |-> rest.err, bytes |-> w.bytes \o rest.bytes]

\* Index.WriteIndex: the error it returns, the bytes it has written and the
\* entry list it leaves sorted
WriteIndex(g) ==
    LET sorted == SortByPath(g.Objects)
        header == g.Signature \o BE32(g.Version) \o BE32(Len(sorted))
        body == WriteEntries(sorted, g.Version, 1)
    IN  IF body.err # NoErr
        THEN [err |-> body.err, bytes |-> header \o body.bytes, Objects |-> sorted]
        ELSE [err |-> NoErr,
              bytes |-> header \o body.bytes \o Sha1Sum(header \o body.bytes),
              Objects |-> sorted]

\* the bytes of data from offset pos (counted from 0), at most n of them
Bytes(data, pos, n) ==
    IF pos >= Len(data) THEN <<>>
    ELSE SubSeq(data, pos + 1, IF pos + n > Len(data) THEN Len(data) ELSE pos + n)

DecodeFixed(b) ==
    [Ctime |-> DE32(SubSeq(b, 1, 4)), Ctimenano |-> DE32(SubSeq(b, 5, 8)),
     Mtime |-> DE64(SubSeq(b, 9, 16)), Dev |-> DE32(SubSeq(b, 17, 20)),
     Ino |-> DE32(SubSeq(b, 21, 24)), Mode |-> DE32(SubSeq(b, 25, 28)),
     Uid |-> DE32(SubSeq(b, 29, 32)), Gid |-> DE32(SubSeq(b, 33, 36)),
     Fsize |-> DE32(SubSeq(b, 37, 40)), Sha1 |-> SubSeq(b, 41, 60),
     Flags |-> DE16(SubSeq(b, 61, 62)), Ext |-> NoExt, PathName |-> <<>>]

\* a nil *IndexEntry: the only entry value without a 20 byte hash
NilEntry == [Ctime |-> 0, Ctimenano |-> 0, Mtime |-> I64(0), Dev |-> 0, Ino |-> 0,
             Mode |-> 0, Uid |-> 0, Gid |-> 0, Fsize |-> 0, Sha1 |-> <<>>,
             Flags |-> 0, Ext |-> NoExt, PathName |-> <<>>]

Failed(kind, pos) == [err |-> Err(kind, <<>>), panic |-> FALSE, entry |-> NilEntry, pos |-> pos]
Panicked(pos) == [err |-> NoErr, panic |-> TRUE, entry |-> NilEntry, pos |-> pos]

\* the skip computed from the 62 bytes of the fixed block and the 4
ReadPadding_From62(extended, nameLength) ==
    LET sz == 62 + (IF extended THEN 2 ELSE 0)
    IN  8 - ((sz + nameLength + 4) % 8)

\* the bytes ReadIndexEntry skips after a name shorter than 0xFFF
ReadPadding(extended, nameLength) ==
    LET sz == 82 + (IF extended THEN 2 ELSE 0)
    IN  8 - ((sz + nameLength + 4) % 8)

\* the name and padding part of ReadIndexEntry, from offset pos
ReadName(data, pos, f, ext) ==
    LET nameLength == f.Flags % 4096
    IN  IF nameLength # NameMask
        THEN LET name == Bytes(data, pos, nameLength)
             IN  IF Len(name) # nameLength
                 THEN Panicked(pos + Len(name))
                 ELSE [err |-> NoErr, panic |-> FALSE,
                       entry |-> [f EXCEPT !.Ext = ext, !.PathName = name],
                       pos |-> pos + nameLength + ReadPadding(ExtendedFlag(f), nameLength)]
        ELSE LET nuls == {z \in (pos + 1)..Len(data) : data[z] = 0}
             IN  IF nuls = {} /\ pos < Len(data)
                 THEN Failed("EOF", Len(data))
                 ELSE LET off == IF nuls = {} THEN pos ELSE Min(nuls)
                          name == IF nuls = {} THEN <<>> ELSE SubSeq(data, pos + 1, off - 1)
                          padding == 8 - ((off + 4) % 8)
                      IN  [err |-> NoErr, panic |-> FALSE,
                           entry |-> [f EXCEPT !.Ext = ext, !.PathName = name],
                           pos |-> off + padding]

\* ReadIndexEntry from offset pos of the file
ReadIndexEntry(data, pos, indexVersion) ==
    IF indexVersion < 2 \/ indexVersion > 3
    THEN Failed("unsupported", pos)
    ELSE LET fixed == Bytes(data, pos, 62)
         IN  IF Len(fixed) < 62
             THEN Failed("EOF", pos + Len(fixed))
             ELSE LET f == DecodeFixed(fixed)
                  IN  IF ExtendedFlag(f)
                      THEN IF indexVersion < 3
                           THEN Failed("InvalidIndex", pos + 62)
                           ELSE LET v3e == Bytes(data, pos + 62, 2)
                                IN  IF Len(v3e) < 2
                                    THEN Failed("EOF", pos + 62 + Len(v3e))
                                    ELSE ReadName(data, pos + 64, f, DE16(v3e))
                      ELSE ReadName(data, pos + 62, f, NoExt)

RECURSIVE ReadEntries(_, _, _, _)
\* the loop of ReadIndex over the declared entries
ReadEntries(data, pos, version, n) ==
    IF n = 0
    THEN [panic |-> FALSE, Objects |-> <<>>]
    ELSE LET r == ReadIndexEntry(data, pos, version)
         IN  IF r.panic
             THEN [panic |-> TRUE, Objects |-> <<>>]
             ELSE LET rest == ReadEntries(data, r.pos, version, n - 1)
                  IN  [panic |-> rest.panic,
                       Objects |-> IF rest.panic THEN <<>> ELSE <<r.entry>> \o rest.Objects]

\* a nil *Index
NoIndex == [Signature |-> <<>>, Objects |-> <<>>, Version |-> 0,
            NumberIndexEntries |-> 0]

\* what os.Open of the index file gives: the file, os.IsNotExist, another error
OpenOutcomes == {"ok", "notexist", "denied"}

\* GitDir.ReadIndex that takes every failure to open the file for a missing file
ReadIndex_AnyOpenError(data, open) ==
    IF open # "ok"
    THEN [err |-> NoErr, panic |-> FALSE, idx |-> NewIndex]
    ELSE IF Len(data) < 12 \/ SubSeq(data, 1, 4) # Signature
    THEN [err |-> Err("InvalidIndex", <<>>), panic |-> FALSE, idx |-> NoIndex]
    ELSE LET version == DE32(SubSeq(data, 5, 8))
             count == DE32(SubSeq(data, 9, 12))
         IN  IF version < 2 \/ version > 4
             THEN [err |-> Err("InvalidIndex", <<>>), panic |-> FALSE, idx |-> NoIndex]
             ELSE LET r == ReadEntries(data, 12, version, count)
                  IN  IF r.panic
                      THEN [err |-> NoErr, panic |-> TRUE, idx |-> NoIndex]
                      ELSE [err |-> NoErr, panic |-> FALSE,
                            idx |-> [Signature |-> SubSeq(data, 1, 4),
                                     Objects |-> r.Objects, Version |-> version,
                                     NumberIndexEntries |-> count]]

\* GitDir.ReadIndex; open is the outcome of opening the index file and data
\* the bytes of the file
ReadIndex(data, open) ==
    IF open = "notexist"
    THEN [err |-> NoErr, panic |-> FALSE, idx |-> NewIndex]
    ELSE IF open # "ok"
    THEN [err |-> Err("open", <<>>), panic |-> FALSE, idx |-> NoIndex]
    ELSE IF Len(data) < 12 \/ SubSeq(data, 1, 4) # Signature
    THEN [err |-> Err("InvalidIndex", <<>>), panic |-> FALSE, idx |-> NoIndex]
    ELSE LET version == DE32(SubSeq(data, 5, 8))
             count == DE32(SubSeq(data, 9, 12))
         IN  IF version < 2 \/ version > 4
             THEN [err |-> Err("InvalidIndex", <<>>), panic |-> FALSE, idx |-> NoIndex]
             ELSE LET r == ReadEntries(data, 12, version, count)
                  IN  IF r.panic
                      THEN [err |-> NoErr, panic |-> TRUE, idx |-> NoIndex]
                      ELSE [err |-> NoErr, panic |-> FALSE,
                            idx |-> [Signature |-> SubSeq(data, 1, 4),
                                     Objects |-> r.Objects, Version |-> version,
                                     NumberIndexEntries |-> count]]

----------------------------------------------------------------------------
(* The working tree: the file behind every path checkout-index may touch   *)

\* "." : the directory the paths are relative to
Dot == <<46>>

\* "o/" : the prefix of the calls made with a prefix, and its directory "o"
PrefixO == <<111, 47>>
PrefixDir == <<111>>

\* "../x" : a file outside the working tree
PathOutside == <<46, 46, 47, 120>>

WorkPaths == Paths \cup {PrefixO \o p : p \in Paths} \cup {PrefixDir}

EmptyTree == [p \in WorkPaths |-> FileAbsent]

\* a regular file holding blob k, as it was left before the call
OnDisk(k) == [FileRegular EXCEPT !.content = k, !.size = k]

\* the regular file ioutil.WriteFile leaves: blob k, new inode and times
Written(k) == [kind |-> "file", mtime |-> I64(9), size |-> k, ctime |-> 9,
               ctimenano |-> 9, ino |-> 9, content |-> k]

\* the directory os.MkdirAll makes
MadeDir == [FileDir EXCEPT !.mtime = I64(9), !.ctime = 9, !.ctimenano = 9, !.ino = 9]

\* the directories a path lies in, "." left out
Ancestors(f) == {SubSeq(f, 1, i - 1) : i \in {j \in 1..Len(f) : f[j] = Slash}}

\* filepath.Dir
Dir(f) ==
    LET slashes == {j \in 1..Len(f) : f[j] = Slash}
    IN  IF slashes = {} THEN Dot
        ELSE SubSeq(f, 1, (CHOOSE j \in slashes : \A i \in slashes : i <= j) - 1)

\* what os.Stat / os.Lstat of the path sees: a path below a regular file
\* fails with ENOTDIR, which is not os.IsNotExist
FileAt(wt, f) ==
    IF f = Dot THEN FileDir
    ELSE IF \E a \in Ancestors(f) : wt[a].kind \in {"file", "symlink"}
    THEN FileNoAccess
    ELSE wt[f]

\* File.IsDir
IsDir(f) == f.kind = "dir"

\* os.RemoveAll
RemoveAll(wt, p) ==
    [q \in DOMAIN wt |-> IF q = p \/ IsUnder(q, p) THEN FileAbsent ELSE wt[q]]

\* os.Remove
Remove(wt, p) ==
    IF FileAt(wt, p).kind \in {"file", "symlink"}
    THEN [err |-> NoErr, wt |-> [wt EXCEPT ![p] = FileAbsent]]
    ELSE [err |-> Err("remove", p), wt |-> wt]

\* os.MkdirAll
MkdirAll(wt, p) ==
    IF p = Dot \/ IsDir(FileAt(wt, p))
    THEN [err |-> NoErr, wt |-> wt]
    ELSE IF \E a \in Ancestors(p) \cup {p} : FileAt(wt, a).kind \notin {"absent", "dir"}
    THEN [err |-> Err("mkdir", p), wt |-> wt]
    ELSE [err |-> NoErr,
          wt |-> [q \in DOMAIN wt |->
                    IF q \in Ancestors(p) \cup {p} /\ ~IsDir(wt[q])
                    THEN MadeDir ELSE wt[q]]]

\* ioutil.WriteFile of blob k
WriteFile(wt, f, k) ==
    IF ~IsDir(FileAt(wt, Dir(f))) \/ IsDir(FileAt(wt, f))
    THEN [err |-> Err("write", f), wt |-> wt]
    ELSE [err |-> NoErr, wt |-> [wt EXCEPT ![f] = Written(k)]]

\* File.IndexPath: fails for a file outside the working tree
IndexPathOk(file) == ~HasPrefix(file, <<46, 46, 47>>)

\* IndexPath.IsClean: the file holds the blob of the hash
IsClean(wt, path, sha) ==
    LET f == FileAt(wt, path)
    IN  f.kind = "file" /\ BlobHash(f.content) = sha

\* Client.GetObject succeeds: the object store holds the blob
GetObjectOk(store, sha) == sha[20] \in store

\* LsFiles with Killed: the paths of the working tree that stand in the way
\* of the requested entries of the index, a directory where the file of an
\* entry goes or a file where one of its directories goes, in path order
LsFilesKilled(objs, wt, files) ==
    LET wanted == {objs[k].PathName : k \in {j \in 1..Len(objs) :
                       \E i \in 1..Len(files) : files[i] = objs[j].PathName}}
        blocks(p) == \/ p \in wanted /\ IsDir(FileAt(wt, p))
                     \/ /\ \E w \in wanted : p \in Ancestors(w)
                        /\ wt[p].kind \in {"file", "symlink"}
    IN  SelectSeq(<<PathA, PathAB, PathB>>, blocks)

----------------------------------------------------------------------------
(* checkout-index *)

Stage1 == 1
Stage2 == 2
Stage3 == 3

\* the name of the n-th temporary file: ".merge_file_" and a suffix that
\* ioutil.TempFile makes up, here the digit n
TempName(n) ==
    <<46, 109, 101, 114, 103, 101, 95, 102, 105, 108, 101, 95>> \o <<48 + n>>

\* what a call does besides changing files: an iteration of the loop over
\* the files ("file", n the place of the file), and for entry n of the index
\* a line on os.Stderr ("stderr", n = 0 when the line is about no entry), a
\* call of Client.GetObject ("get"), a temporary file made or written
\* ("temp"), its stat fields refreshed ("refresh")
Ev(ev, path, what, n) == [ev |-> ev, path |-> path, what |-> what, n |-> n]

\* the delimiter after a printed record
Delim(opts) == IF opts.NullTerminate THEN 0 ELSE 10

\* a call in progress: the entries of the index, the working tree, the bytes
\* on os.Stdout, what it did, the temporary files made so far, the variable
\* err of the loop over the files, and how it ended (ret, reterr)
Started(objs, wt) ==
    [Objects |-> objs, worktree |-> wt, stdout |-> <<>>, log |-> <<>>,
     temps |-> 0, err |-> NoErr, ret |-> "running", reterr |-> NoErr,
     killed |-> <<>>, listed |-> <<>>, persisted |-> FALSE, bytes |-> <<>>]

Logged(st, e) == [st EXCEPT !.log = Append(@, e)]

\* checkoutTemp of entry k of the index: the state after it, the name it
\* returns and its error
checkoutTemp(st, k, store) ==
    LET entry == st.Objects[k]
        n == st.temps + 1
        made == Logged([st EXCEPT !.temps = n], Ev("temp", TempName(n), "create", k))
    IN  IF ~GetObjectOk(store, entry.Sha1)
        THEN [st |-> Logged(made, Ev("get", entry.PathName, "missing", k)),
              name |-> <<>>, err |-> Err("object", entry.PathName)]
        ELSE [st |-> Logged(Logged(made, Ev("get", entry.PathName, "ok", k)),
                            Ev("temp", TempName(n), "write", k)),
              name |-> TempName(n), err |-> NoErr]

\* the part of checkoutFile under !opts.NoCreate: the working tree after it
\* and its error
CreateFile(wt, f, k) ==
    LET wt1 == IF Exists(FileAt(wt, f)) /\ IsDir(FileAt(wt, f))
               THEN RemoveAll(wt, f) ELSE wt
        p == Dir(f)
        pf == FileAt(wt1, p)
        dirs == IF ~Exists(pf)
                THEN MkdirAll(wt1, p)
                ELSE IF ~IsDir(pf)
                THEN LET r == Remove(wt1, p)
                     IN  IF r.err # NoErr THEN r ELSE MkdirAll(r.wt, p)
                ELSE [err |-> NoErr, wt |-> wt1]
    IN  IF dirs.err # NoErr THEN dirs ELSE WriteFile(dirs.wt, f, k)

\* the stat fields are refreshed with update-stat, whatever the prefix
StatRefreshed_AnyPrefix(opts) == opts.UpdateStat

\* checkoutFile refreshes the stat fields of the entry it has checked out
StatRefreshed(opts) == opts.Prefix = <<>> /\ opts.UpdateStat

\* checkoutFile of entry k of the index: the state after it and its error
checkoutFile(st, k, opts, store) ==
    LET entry == st.Objects[k]
        f == opts.Prefix \o entry.PathName
    IN  IF Exists(FileAt(st.worktree, f)) /\ ~opts.Force
        THEN [st |-> st,
              err |-> IF opts.Quiet THEN NoErr ELSE Err("exists", entry.PathName)]
        ELSE IF ~GetObjectOk(store, entry.Sha1)
        THEN [st |-> Logged(st, Ev("get", entry.PathName, "missing", k)),
              err |-> Err("object", entry.PathName)]
        ELSE LET got == Logged(st, Ev("get", entry.PathName, "ok", k))
                 made == IF opts.NoCreate
                         THEN [err |-> NoErr, wt |-> got.worktree]
                         ELSE CreateFile(got.worktree, f, entry.Sha1[20])
                 after == [got EXCEPT !.worktree = made.wt]
             IN  IF made.err # NoErr
                 THEN [st |-> after, err |-> made.err]
                 ELSE IF StatRefreshed(opts)
                 THEN LET r == RefreshStat(entry, FileAt(after.worktree, entry.PathName))
                      IN  IF r.err # NoErr
                          THEN [st |-> after, err |-> r.err]
                          ELSE [st |-> Logged([after EXCEPT !.Objects[k] = r.entry],
                                              Ev("refresh", entry.PathName, "", k)),
                                err |-> NoErr]
                 ELSE [st |-> after, err |-> NoErr]

\* the entry Index.GetStageMap holds for (path, stage): the last such entry,
\* or 0 when the map has none
StageMapAt(objs, path, stage) ==
    LET at == {k \in 1..Len(objs) : objs[k].PathName = path /\ Stage(objs[k]) = stage}
    IN  IF at = {} THEN 0 ELSE CHOOSE k \in at : \A j \in at : j <= k

\* the branch opts.Stage == "all" of the loop over the files
CheckoutAllStages(st, indexpath, opts, store) ==
    IF StageMapAt(st.Objects, indexpath, Stage0) # 0
    THEN IF opts.Quiet THEN st
         ELSE Logged(st, Ev("stderr", indexpath, "does not exist at stage 0", 0))
    ELSE LET one(s, stage) ==
                 LET k == StageMapAt(s.Objects, indexpath, stage)
                 IN  IF k = 0
                     THEN [s EXCEPT !.stdout = @ \o <<46, 32>>]
                     ELSE LET t == checkoutTemp(s, k, store)
                              u == IF t.err # NoErr
                                   THEN Logged(t.st, Ev("stderr", indexpath, t.err.kind, k))
                                   ELSE t.st
                          IN  [u EXCEPT !.stdout = @ \o t.name \o <<32>>]
             s2 == one(one(st, Stage1), Stage2)
             k3 == StageMapAt(s2.Objects, indexpath, Stage3)
         IN  IF k3 = 0
             THEN [s2 EXCEPT !.ret = "panic"]
             ELSE LET t == checkoutTemp(s2, k3, store)
                      u == IF t.err # NoErr
                           THEN Logged(t.st, Ev("stderr", indexpath, t.err.kind, k3))
                           ELSE t.st
                  IN  [u EXCEPT !.stdout = @ \o t.name \o <<9>>
                                              \o u.Objects[k3].PathName \o <<Delim(opts)>>]

\* the stage a decimal opts.Stage names
StageNumber(s) == CASE s = "1" -> Stage1 [] s = "2" -> Stage2 [] s = "3" -> Stage3

\* checkoutTemp or checkoutFile of entry k, as the switch on opts.Stage calls
\* them: the state after it, err assigned
Materialize(st, k, opts, store) ==
    IF opts.Temp
    THEN LET t == checkoutTemp(st, k, store)
         IN  [t.st EXCEPT !.err = t.err,
                          !.stdout = IF t.name # <<>>
                                     THEN @ \o t.name \o <<9>> \o st.Objects[k].PathName
                                            \o <<Delim(opts)>>
                                     ELSE @]
    ELSE LET c == checkoutFile(st, k, opts, store)
         IN  [c.st EXCEPT !.err = c.err]

\* no entry is left alone for being clean
SkipClean_Never(wt, entry, opts) == FALSE

\* an entry whose file is clean is left alone with force as well
SkipClean_Forced(wt, entry, opts) ==
    /\ ~opts.Temp /\ opts.Prefix = <<>>
    /\ IsClean(wt, entry.PathName, entry.Sha1)

\* the entry is left alone, its file being clean already
SkipClean(wt, entry, opts) ==
    /\ ~opts.Temp /\ ~opts.Force /\ opts.Prefix = <<>>
    /\ IsClean(wt, entry.PathName, entry.Sha1)

RECURSIVE CheckoutEntries(_, _, _, _, _)
\* the loop over idx.Objects for one file, from entry k on
CheckoutEntries(st, indexpath, opts, store, k) ==
    IF k > Len(st.Objects) \/ st.ret # "running"
    THEN st
    ELSE LET entry == st.Objects[k]
             report(s) == IF s.err # NoErr
                          THEN Logged(s, Ev("stderr", s.err.path, s.err.kind, k))
                          ELSE s
         IN  IF entry.PathName # indexpath
             THEN CheckoutEntries(st, indexpath, opts, store, k + 1)
             ELSE IF SkipClean(st.worktree, entry, opts)
             THEN CheckoutEntries(st, indexpath, opts, store, k + 1)
             ELSE IF opts.Stage = ""
             THEN IF Stage(entry) = Stage0
                  THEN CheckoutEntries(report(Materialize(st, k, opts, store)),
                                       indexpath, opts, store, k + 1)
                  ELSE [st EXCEPT !.ret = "returned", !.reterr = Err("unmerged", <<>>)]
             ELSE IF opts.Stage \in {"1", "2", "3"}
             THEN IF Stage(entry) = StageNumber(opts.Stage)
                  THEN CheckoutEntries(report(Materialize(st, k, opts, store)),
                                       indexpath, opts, store, k + 1)
                  ELSE CheckoutEntries(report(st), indexpath, opts, store, k + 1)
             ELSE [st EXCEPT !.ret = "returned", !.reterr = Err("invalid stage", <<>>)]

RECURSIVE CheckoutFiles(_, _, _, _, _)
\* the loop over the files, from file j on
CheckoutFiles(st, files, opts, store, j) ==
    IF j > Len(files) \/ st.ret # "running"
    THEN st
    ELSE LET file == files[j]
             here == Logged(st, Ev("file", file, "", j))
         IN  IF ~IndexPathOk(file)
             THEN CheckoutFiles(IF opts.Quiet THEN here
                                ELSE Logged(here, Ev("stderr", file, "path", 0)),
                                files, opts, store, j + 1)
             ELSE LET s == [here EXCEPT !.err = NoErr]
                  IN  CheckoutFiles(IF opts.Stage = "all"
                                    THEN CheckoutAllStages(s, file, opts, store)
                                    ELSE CheckoutEntries(s, file, opts, store, 1),
                                    files, opts, store, j + 1)

RECURSIVE RemoveAllEach(_, _)
RemoveAllEach(wt, killed) ==
    IF killed = <<>> THEN wt
    ELSE RemoveAllEach(RemoveAll(wt, Head(killed)), Tail(killed))

\* the killed files are removed whether force is set or not
KilledAbort_Never(killed, opts) == FALSE

\* the call gives up on the killed files
KilledAbort(killed, opts) == Len(killed) > 0 /\ ~opts.Force

\* the end of the call: with update-stat the index is written to its file
WriteBack(idx, opts, done) ==
    IF done.ret # "running"
    THEN done
    ELSE IF opts.UpdateStat
    THEN LET w == WriteIndex([idx EXCEPT !.Objects = done.Objects])
         IN  [done EXCEPT !.ret = "returned", !.reterr = w.err,
                          !.Objects = w.Objects,
                          !.persisted = TRUE, !.bytes = w.bytes]
    ELSE [done EXCEPT !.ret = "returned"]

\* CheckoutIndexUncommited on the index idx and the working tree wt; store
\* holds the blobs Client.GetObject finds
CheckoutIndexUncommited(idx, wt, opts, files, store) ==
    LET all == IF opts.All
               THEN [k \in 1..Len(idx.Objects) |-> idx.Objects[k].PathName]
               ELSE files
        killed == LsFilesKilled(idx.Objects, wt, all)
        start == [Started(idx.Objects, wt) EXCEPT !.killed = killed]
    IN  IF KilledAbort(killed, opts)
        THEN [start EXCEPT !.ret = "returned", !.reterr = Err("killed", <<>>),
                           !.listed = killed]
        ELSE WriteBack(idx, opts,
                       CheckoutFiles([start EXCEPT !.worktree = RemoveAllEach(wt, killed)],
                                     all, opts, store, 1))

----------------------------------------------------------------------------
(* The state machine of one checkout-index call on an index and a working  *)
(* tree                                                                    *)

\* number of entries of the indexes checked out
MaxCheckoutEntries == 2

\* an entry as ReadIndex or ResetIndex gives it: no extended flags word
CheckoutEntry(path, stage, k) ==
    [NewEntry(path, ModeBlob, Sha1Of(k), stage, k, I64(1)) EXCEPT !.Ext = NoExt]

\* the entries the indexes are made of: path, stage and blob
CheckoutEntries0 ==
    {CheckoutEntry(PathA, Stage0, 1), CheckoutEntry(PathA, Stage1, 1),
     CheckoutEntry(PathA, Stage3, 2), CheckoutEntry(PathAB, Stage0, 1),
     CheckoutEntry(PathB, Stage0, 2), CheckoutEntry(PathB, Stage2, 2)}

CheckoutIndexes ==
    {objs \in UNION {[1..n -> CheckoutEntries0] : n \in 0..MaxCheckoutEntries} :
        InOrder(objs)}

\* the working trees: "a" missing, a file with the blob of the index or with
\* another one, or a directory, with or without "a/b"; "b" missing, a file, or
\* a directory; nothing under "o"
WorkTrees ==
    {[p \in WorkPaths |-> CASE p = PathA -> x [] p = PathAB -> y [] p = PathB -> z
                            [] OTHER -> FileAbsent] :
        x \in {FileAbsent, OnDisk(1), OnDisk(2), FileDir},
        y \in {FileAbsent, OnDisk(1)},
        z \in {FileAbsent, OnDisk(2), FileDir}}

\* a directory entry exists only in a directory
TreeOk(wt) == \A p \in DOMAIN wt : Exists(wt[p]) => \A a \in Ancestors(p) : IsDir(wt[a])

Blank == [UpdateStat |-> FALSE, Quiet |-> FALSE, Force |-> FALSE, All |-> FALSE,
          NoCreate |-> FALSE, Prefix |-> <<>>, Stage |-> "", Temp |-> FALSE,
          NullTerminate |-> FALSE]

\* the CheckoutIndexOptions of the calls: every combination of force, temp,
\* update-stat, all and three stages, and each other option set on its own
CheckoutOptions ==
    {[Blank EXCEPT !.Force = f, !.Temp = t, !.UpdateStat = u, !.All = a, !.Stage = s] :
        f \in BOOLEAN, t \in BOOLEAN, u \in BOOLEAN, a \in BOOLEAN,
        s \in {"", "1", "all"}}
    \cup {[Blank EXCEPT !.Force = f, !.UpdateStat = u, !.Quiet = TRUE] :
             f \in BOOLEAN, u \in BOOLEAN}
    \cup {[Blank EXCEPT !.Force = f, !.UpdateStat = u, !.NoCreate = TRUE] :
             f \in BOOLEAN, u \in BOOLEAN}
    \cup {[Blank EXCEPT !.Force = f, !.UpdateStat = u, !.Prefix = PrefixO] :
             f \in BOOLEAN, u \in BOOLEAN}
    \cup {[Blank EXCEPT !.Temp = t, !.NullTerminate = TRUE, !.Stage = s] :
             t \in BOOLEAN, s \in {"", "all"}}
    \cup {[Blank EXCEPT !.Stage = "x"]}

\* the files named to a call
FileLists == {<<PathA>>, <<PathB, PathA>>, <<PathAB, PathB>>, <<PathOutside, PathB>>}

\* the blobs in the object store: both, or blob 2 missing
Stores == {{1, 2}, {1}}

\* no checkout-index call has been made
NoRun == [opts |-> Blank, files |-> <<>>, store |-> {}, stdout |-> <<>>,
          log |-> <<>>, ret |-> "none", reterr |-> NoErr, killed |-> <<>>,
          listed |-> <<>>, persisted |-> FALSE]

\* no symbolic-ref file, nothing read from it
NoRefFile == [stat |-> "notexist", content |-> <<>>]
NoRef == [called |-> FALSE, panic |-> FALSE, value |-> <<>>]

\* opts.Stdin is nil
NoStdin == [open |-> FALSE, bytes |-> <<>>]

\* no process is writing the index file
NoWriter == [pc |-> "idle", todo |-> <<>>, old |-> <<>>]

\* GIT_INDEX_FILE is not set, or is empty
NoEnvFile == [set |-> FALSE, stat |-> "notexist", bytes |-> <<>>]

Apart == stdin = NoStdin /\ writer = NoWriter /\ envFile = NoEnvFile

----------------------------------------------------------------------------
(* The state machine of an index under its mutation operations *)

\* the Index the calls are made on; its signature is the one NewIndex and
\* ReadIndex give every Index
G == [Signature |-> Signature, Objects |-> Objects, Version |-> Version,
      NumberIndexEntries |-> NumberIndexEntries]

\* the index becomes g; the index file is not touched
Becomes(g) ==
    /\ Objects' = g.Objects
    /\ Version' = g.Version
    /\ NumberIndexEntries' = g.NumberIndexEntries
    /\ UNCHANGED <<indexFile, indexStat, loaded>>
    /\ UNCHANGED others

\* nothing has been read from the index file
NoLoad == [err |-> NoErr, panic |-> FALSE, idx |-> NoIndex]

Stages == 0..MaxStage

Options == [Add : BOOLEAN, Replace : BOOLEAN]

\* what a caller of AddStage passes as mode, hash, size and mtime
Blobs == {[mode |-> ModeBlob, sha |-> Sha1Of(1), size |-> 1, mtime |-> I64(1)]}

\* the working-tree file of the path during a call of AddStage / AddFile
StageFiles == {FileAbsent, FileNoAccess}
AddFiles == {FileAbsent, FileRegular, FileSymlink, FileDir}
StoreOutcomes == {TRUE}

HasPath(objs, path) == \E k \in 1..Len(objs) : objs[k].PathName = path

HasEntry(objs, path, stage) ==
    \E k \in 1..Len(objs) : objs[k].PathName = path /\ Stage(objs[k]) = stage

HasUnmerged(objs, path) ==
    \E k \in 1..Len(objs) : objs[k].PathName = path /\ Stage(objs[k]) # Stage0

HasRelated(objs, path) == \E k \in 1..Len(objs) : Related(objs[k].PathName, path)

\* the record of the last call: the operation, its path and stage, the
\* replace option and value argument, its error, and what the index held
\* when the call was made: an entry for (path, stage) (existed), an entry
\* for the path (present), stage 1-3 entries of the path (unmerged),
\* parent/child entries of the path (related)
Call(op, path, stage, replace, value, err) ==
    [op |-> op, path |-> path, stage |-> stage, replace |-> replace,
     value |-> value, err |-> err, mode |-> 0, sha |-> <<>>,
     existed |-> HasEntry(Objects, path, stage),
     present |-> HasPath(Objects, path),
     unmerged |-> HasUnmerged(Objects, path),
     related |-> HasRelated(Objects, path)]

\* no call is in progress: the caller has taken the result of the last one
NoCall == [op |-> "none", path |-> <<>>, stage |-> 0,
           replace |-> FALSE, value |-> FALSE, err |-> NoErr,
           mode |-> 0, sha |-> <<>>,
           existed |-> FALSE, present |-> FALSE,
           unmerged |-> FALSE, related |-> FALSE]

\* no file in the working tree, no checkout-index call made, no symbolic-ref
\* file read
Untouched ==
    /\ worktree = EmptyTree
    /\ run = NoRun
    /\ refFile = NoRefFile
    /\ refGot = NoRef
    /\ Apart

Init ==
    /\ Objects = NewIndex.Objects
    /\ Version = NewIndex.Version
    /\ NumberIndexEntries = NewIndex.NumberIndexEntries
    /\ last = NoCall
    /\ indexFile = <<>>
    /\ indexStat = "notexist"
    /\ loaded = NoLoad
    /\ Untouched

CallAddStage ==
    /\ last = NoCall
    /\ \E path \in Paths, b \in Blobs, stage \in Stages, opts \in Options,
          f \in StageFiles :
           LET r == AddStage(G, path, b.mode, b.sha, stage, b.size, b.mtime, opts, f)
           IN  /\ Len(r.idx.Objects) <= MaxEntries
               /\ Becomes(r.idx)
               /\ last' = [Call("AddStage", path, stage, opts.Replace, FALSE, r.err)
                             EXCEPT !.mode = b.mode, !.sha = b.sha]

CallAddFile ==
    /\ last = NoCall
    /\ \E path \in Paths, opts \in Options, storeOk \in StoreOutcomes,
          f \in AddFiles :
           LET r == AddFile(G, path, f, storeOk, opts)
           IN  /\ Len(r.idx.Objects) <= MaxEntries
               /\ Becomes(r.idx)
               /\ last' = [Call("AddFile", path, Stage0, opts.Replace, FALSE, r.err)
                             EXCEPT !.mode = IF f.kind = "symlink" THEN ModeSymlink
                                                                   ELSE ModeBlob,
                                    !.sha = BlobHash(f.content)]

CallRemoveFile ==
    /\ last = NoCall
    /\ \E path \in Paths :
           /\ Becomes(RemoveFile(G, path))
           /\ last' = Call("RemoveFile", path, 0, FALSE, FALSE, NoErr)

CallRemoveUnmergedStages ==
    /\ last = NoCall
    /\ \E path \in Paths :
           /\ Becomes(RemoveUnmergedStages(G, path))
           /\ last' = Call("RemoveUnmergedStages", path, 0, FALSE, FALSE, NoErr)

CallSetSkipWorktree ==
    /\ last = NoCall
    /\ \E path \in Paths, value \in BOOLEAN :
           LET r == SetSkipWorktree(G, path, value)
           IN  /\ Becomes(r.idx)
               /\ last' = Call("SetSkipWorktree", path, 0, FALSE, value, r.err)

CallResetIndex ==
    /\ last = NoCall
    /\ \E tree \in Trees, expands \in BOOLEAN :
           LET r == ResetIndex(G, tree, expands)
           IN  /\ Becomes(r.idx)
               /\ last' = Call("ResetIndex", <<>>, 0, FALSE, FALSE, r.err)

\* the caller takes the result and goes on to its next call
Continue ==
    /\ last # NoCall
    /\ last' = NoCall
    /\ UNCHANGED <<Objects, Version, NumberIndexEntries, indexFile, indexStat, loaded>>
    /\ UNCHANGED others

Next ==
    \/ Continue
    \/ CallAddStage
    \/ CallAddFile
    \/ CallRemoveFile
    \/ CallRemoveUnmergedStages
    \/ CallSetSkipWorktree
    \/ CallResetIndex

Spec == Init /\ [][Next]_vars

----------------------------------------------------------------------------
(* The codec on its own: an index is written to the index file, the file   *)
(* is read back, for indexes over names of every padding class.            *)

\* names of 1..MaxShortLen bytes, and of 0xFFF..0xFFF+LongSpan-1 bytes
MaxShortLen == 8
LongSpan == 8
\* number of entries of the written indexes
MaxCodecEntries == 2

\* a name of n bytes, as a sequence
Name(n) == <<>> \o [i \in 1..n |-> 97]

NameLengths == (1..MaxShortLen) \cup (NameMask..(NameMask + LongSpan - 1))

\* an entry as AddStage builds it, then marked skip-worktree or not
CodecEntry(n, skip) ==
    LET e == NewEntry(Name(n), ModeBlob, Sha1Of(1), Stage0, 1, I64(1))
    IN  IF skip THEN EntrySetSkipWorktree(e, TRUE) ELSE e

\* the shape of an index: the name length and skip-worktree mark of each entry
Shapes ==
    UNION {[1..n -> NameLengths \X BOOLEAN] : n \in 0..MaxCodecEntries}

Shaped(shape) == [k \in 1..Len(shape) |-> CodecEntry(shape[k][1], shape[k][2])]

CodecInit ==
    /\ \E shape \in Shapes :
          /\ Objects = Shaped(shape)
          /\ InOrder(Objects)
    /\ Version \in {2, 3}
    /\ (\E k \in 1..Len(Objects) : ExtendedFlag(Objects[k])) => Version = 3
    /\ NumberIndexEntries = Len(Objects)
    /\ last = NoCall
    /\ indexFile = <<>>
    /\ indexStat = "notexist"
    /\ loaded = NoLoad
    /\ Untouched

\* Index.WriteIndex into the index file, created or truncated by the caller
CallWriteIndex ==
    /\ last.op = "none"
    /\ LET w == WriteIndex(G)
       IN  /\ indexFile' = w.bytes
           /\ indexStat' = "ok"
           /\ Objects' = w.Objects
           /\ last' = Call("WriteIndex", <<>>, 0, FALSE, FALSE, w.err)
    /\ UNCHANGED <<Version, NumberIndexEntries, loaded>>
    /\ UNCHANGED others

\* GitDir.ReadIndex of the index file as it was left
CallReadIndex ==
    /\ last.op \in {"WriteIndex", "Tamper"}
    /\ last.err = NoErr
    /\ loaded' = ReadIndex(indexFile, indexStat)
    /\ last' = Call("ReadIndex", <<>>, 0, FALSE, FALSE, loaded'.err)
    /\ UNCHANGED <<Objects, Version, NumberIndexEntries, indexFile, indexStat>>
    /\ UNCHANGED others

CodecNext ==
    \/ CallWriteIndex
    \/ CallReadIndex

CodecSpec == CodecInit /\ [][CodecNext]_vars

----------------------------------------------------------------------------
(* The reader on index files it did not write: files of other versions,    *)
(* with another signature, with a wrong or missing trailer, cut short,     *)
(* removed or unreadable.                                                  *)

\* number of entries and longest short name of the indexes behind the files
MaxFileEntries == 1
MaxFileNameLen == 2

FileNameLengths == (1..MaxFileNameLen) \cup {NameMask}

FileShapes ==
    UNION {[1..n -> FileNameLengths \X BOOLEAN] : n \in 0..MaxFileEntries}

FileInit ==
    /\ \E shape \in FileShapes :
          /\ Objects = Shaped(shape)
          /\ InOrder(Objects)
    /\ Version \in {2, 3}
    /\ (\E k \in 1..Len(Objects) : ExtendedFlag(Objects[k])) => Version = 3
    /\ NumberIndexEntries = Len(Objects)
    /\ last = NoCall
    /\ indexFile = <<>>
    /\ indexStat = "notexist"
    /\ loaded = NoLoad
    /\ Untouched

\* a file with the digest of its bytes appended, as WriteIndex ends a file
Sealed(body) == body \o Sha1Sum(body)

\* the version numbers a file is given
FileVersions == 0..5

\* the lengths a file is cut to: inside the header (0, 4, 11), after the
\* header (12), inside the fixed block of the first entry (40), inside its
\* extended flags word or name (75) and inside its name or padding (77)
CutLengths == {0, 4, 11, 12, 40, 75, 77}

\* what happens to the index file between a write and the next read:
\* another program writes it with the version or signature it uses, its
\* trailer is changed or lost, it is cut short, removed, or made unreadable
Tamperings ==
    [kind : {"version"}, arg : FileVersions]
    \cup [kind : {"signature", "trailer", "notrailer", "remove", "chmod"}, arg : {0}]
    \cup [kind : {"cut"}, arg : CutLengths]

Tampered(data, t) ==
    LET body == SubSeq(data, 1, Len(data) - 20)
    IN  CASE t.kind = "version" ->
                Sealed(SubSeq(body, 1, 4) \o BE32(t.arg) \o SubSeq(body, 9, Len(body)))
          [] t.kind = "signature" ->
                Sealed(<<68, 73, 82, 68>> \o SubSeq(body, 5, Len(body)))
          [] t.kind = "trailer" ->
                [data EXCEPT ![Len(data)] = (@ + 1) % 256]
          [] t.kind = "notrailer" -> body
          [] t.kind = "cut" -> Bytes(data, 0, t.arg)
          [] OTHER -> data

Tamper ==
    /\ last.op = "WriteIndex"
    /\ last.err = NoErr
    /\ \E t \in Tamperings :
          /\ indexFile' = Tampered(indexFile, t)
          /\ indexStat' = CASE t.kind = "remove" -> "notexist"
                            [] t.kind = "chmod" -> "denied"
                            [] OTHER -> "ok"
    /\ last' = Call("Tamper", <<>>, 0, FALSE, FALSE, NoErr)
    /\ UNCHANGED <<Objects, Version, NumberIndexEntries, loaded>>
    /\ UNCHANGED others

FileNext ==
    \/ CallWriteIndex
    \/ Tamper
    \/ CallReadIndex

FileSpec == FileInit /\ [][FileNext]_vars

----------------------------------------------------------------------------
(* checkout-index on an index that is not written yet *)

CheckoutInit ==
    /\ Objects \in CheckoutIndexes
    /\ Version = 2
    /\ NumberIndexEntries = Len(Objects)
    /\ last = NoCall
    /\ indexFile = <<>>
    /\ indexStat = "notexist"
    /\ loaded = NoLoad
    /\ worktree \in WorkTrees
    /\ TreeOk(worktree)
    /\ run = NoRun
    /\ refFile = NoRefFile
    /\ refGot = NoRef
    /\ Apart

\* the call has come back with r: the index, the working tree and the index
\* file are as it left them
Returned(opts, files, store, r) ==
    /\ Objects' = r.Objects
    /\ worktree' = r.worktree
    /\ indexFile' = IF r.persisted THEN r.bytes ELSE indexFile
    /\ indexStat' = IF r.persisted THEN "ok" ELSE indexStat
    /\ run' = [opts |-> opts, files |-> files, store |-> store,
               stdout |-> r.stdout, log |-> r.log, ret |-> r.ret,
               reterr |-> r.reterr, killed |-> r.killed,
               listed |-> r.listed, persisted |-> r.persisted]
    /\ last' = Call("CheckoutIndexUncommited", <<>>, 0, FALSE, FALSE, r.reterr)

CallCheckoutIndexUncommited ==
    /\ last = NoCall
    /\ \E opts \in CheckoutOptions, files \in FileLists \cup {<<>>}, store \in Stores :
          /\ opts.All <=> files = <<>>
          /\ Returned(opts, files, store,
                      CheckoutIndexUncommited(G, worktree, opts, files, store))
    /\ UNCHANGED <<Version, NumberIndexEntries, loaded, refFile, refGot>>
    /\ UNCHANGED apart

CheckoutNext == CallCheckoutIndexUncommited

CheckoutSpec == CheckoutInit /\ [][CheckoutNext]_vars

----------------------------------------------------------------------------
(* checkout-index on the files named on opts.Stdin *)

\* bufio.Reader.ReadString: the bytes up to and with the first delim, or
\* the bytes that are left and io.EOF when there is no delim
ReadString(bytes, delim) ==
    LET at == {i \in 1..Len(bytes) : bytes[i] = delim}
    IN  IF at = {}
        THEN [s |-> bytes, eof |-> TRUE, rest |-> <<>>]
        ELSE [s |-> SubSeq(bytes, 1, Min(at)), eof |-> FALSE,
              rest |-> SubSeq(bytes, Min(at) + 1, Len(bytes))]

\* strings.TrimSuffix(s, string(delim))
TrimSuffix(s, delim) ==
    IF s # <<>> /\ s[Len(s)] = delim THEN SubSeq(s, 1, Len(s) - 1) ELSE s

\* the loop over the stream before its first item: the entries, the working
\* tree, what the calls printed and did, the files they were made for
StartedReader(objs, wt) ==
    [Objects |-> objs, worktree |-> wt, stdout |-> <<>>, log |-> <<>>,
     files |-> <<>>, ret |-> "running", reterr |-> NoErr, persisted |-> FALSE,
     bytes |-> <<>>]

\* one iteration of the loop: CheckoutIndexUncommited on the file f has come
\* back with r, its error is printed on os.Stderr
ItemDone(st, f, r) ==
    [st EXCEPT !.Objects = r.Objects,
               !.worktree = r.worktree,
               !.files = Append(@, f),
               !.stdout = @ \o r.stdout,
               !.log = @ \o r.log \o (IF r.ret = "returned" /\ r.reterr # NoErr
                                       THEN <<Ev("stderr", f, r.reterr.kind, 0)>>
                                       ELSE <<>>),
               !.ret = IF r.ret = "panic" THEN "panic" ELSE "running",
               !.persisted = @ \/ r.persisted,
               !.bytes = IF r.persisted THEN r.bytes ELSE @]

RECURSIVE ReadItems(_, _, _, _, _)
\* the loop over the stream, bytes being what is left of it
ReadItems(st, idx, opts, bytes, store) ==
    IF st.ret # "running"
    THEN st
    ELSE LET rd == ReadString(bytes, Delim(opts))
         IN  IF rd.eof
             THEN [st EXCEPT !.ret = "returned"]
             ELSE ReadItems(ItemDone(st, TrimSuffix(rd.s, Delim(opts)),
                                     CheckoutIndexUncommited(
                                         [idx EXCEPT !.Objects = st.Objects], st.worktree,
                                         opts, <<TrimSuffix(rd.s, Delim(opts))>>, store)),
                            idx, opts, rd.rest, store)

\* CheckoutIndexFromReaderUncommited; in is opts.Stdin
CheckoutIndexFromReaderUncommited(idx, wt, opts, in, store) ==
    IF ~in.open
    THEN [StartedReader(idx.Objects, wt) EXCEPT !.ret = "returned",
                                                !.reterr = Err("stdin", <<>>)]
    ELSE ReadItems(StartedReader(idx.Objects, wt), idx, opts, in.bytes, store)

\* the state machine of one call on an index, a working tree and a stream

RECURSIVE StreamOf(_, _, _)
\* the files of a list one after the other, delim after each one but, for a
\* stream that is not terminated, the last
StreamOf(files, delim, terminated) ==
    IF files = <<>> THEN <<>>
    ELSE Head(files)
         \o (IF Len(files) > 1 \/ terminated THEN <<delim>> ELSE <<>>)
         \o StreamOf(Tail(files), delim, terminated)

\* the streams: no stream, and every list of files written with newlines or
\* NUL bytes, with and without a delimiter after the last file
Streams ==
    {NoStdin} \cup
    {[open |-> TRUE, bytes |-> StreamOf(files, delim, terminated)] :
        files \in FileLists \cup {<<>>}, delim \in {0, 10}, terminated \in BOOLEAN}

\* the options of the calls on a stream
StdinOptions ==
    {[Blank EXCEPT !.Force = f, !.UpdateStat = u, !.NullTerminate = z, !.Stage = s] :
        f \in BOOLEAN, u \in BOOLEAN, z \in BOOLEAN, s \in {"", "all"}}

StdinInit ==
    /\ Objects \in CheckoutIndexes
    /\ Version = 2
    /\ NumberIndexEntries = Len(Objects)
    /\ last = NoCall
    /\ indexFile = <<>>
    /\ indexStat = "notexist"
    /\ loaded = NoLoad
    /\ worktree \in WorkTrees
    /\ TreeOk(worktree)
    /\ run = NoRun
    /\ refFile = NoRefFile
    /\ refGot = NoRef
    /\ stdin \in Streams
    /\ writer = NoWriter
    /\ envFile = NoEnvFile

\* the call has come back with r
ReaderReturned(opts, store, r) ==
    /\ Objects' = r.Objects
    /\ worktree' = r.worktree
    /\ indexFile' = IF r.persisted THEN r.bytes ELSE indexFile
    /\ indexStat' = IF r.persisted THEN "ok" ELSE indexStat
    /\ run' = [opts |-> opts, files |-> r.files, store |-> store,
               stdout |-> r.stdout, log |-> r.log, ret |-> r.ret,
               reterr |-> r.reterr, killed |-> <<>>,
               listed |-> <<>>, persisted |-> r.persisted]
    /\ last' = Call("CheckoutIndexFromReaderUncommited", <<>>, 0, FALSE, FALSE, r.reterr)

CallCheckoutIndexFromReaderUncommited ==
    /\ last = NoCall
    /\ \E opts \in StdinOptions, store \in Stores :
          ReaderReturned(opts, store,
                         CheckoutIndexFromReaderUncommited(G, worktree, opts, stdin, store))
    /\ UNCHANGED <<Version, NumberIndexEntries, loaded, refFile, refGot>>
    /\ UNCHANGED apart

StdinNext == CallCheckoutIndexFromReaderUncommited

StdinSpec == StdinInit /\ [][StdinNext]_vars

----------------------------------------------------------------------------
(* CheckoutIndex: the index is read from the file GIT_INDEX_FILE names, or *)
(* from <git_dir>/index, checked out, and persisted                        *)

\* what a call leaves: the entries, the working tree, what it printed, how
\* it ended, whether it wrote the index and the bytes it wrote
Outcome(r) ==
    [Objects |-> r.Objects, worktree |-> r.worktree, stdout |-> r.stdout,
     log |-> r.log, ret |-> r.ret, reterr |-> r.reterr,
     persisted |-> r.persisted, bytes |-> r.bytes]

\* a call that ends before it touches anything
Ended(wt, ret, err) ==
    [Objects |-> <<>>, worktree |-> wt, stdout |-> <<>>, log |-> <<>>,
     ret |-> ret, reterr |-> err, persisted |-> FALSE, bytes |-> <<>>]

\* c.GitDir.ReadIndex(): the file GIT_INDEX_FILE names when the variable is
\* set and not empty, <git_dir>/index otherwise
GitDirReadIndex(env, data, stat) ==
    IF env.set THEN ReadIndex(env.bytes, env.stat) ELSE ReadIndex(data, stat)

\* CheckoutIndex after c.GitDir.ReadIndex() has returned ld
CheckoutLoaded(ld, wt, opts, files, in, store) ==
    IF ld.panic THEN Ended(wt, "panic", NoErr)
    ELSE IF ld.err # NoErr THEN Ended(wt, "returned", ld.err)
    ELSE IF ~in.open
    THEN Outcome(CheckoutIndexUncommited(ld.idx, wt, opts, files, store))
    ELSE IF files # <<>>
    THEN Ended(wt, "returned", Err("mix", <<>>))
    ELSE Outcome(CheckoutIndexFromReaderUncommited(ld.idx, wt, opts, in, store))

\* CheckoutIndex; env is GIT_INDEX_FILE and the file it names, data and stat
\* are <git_dir>/index, in is opts.Stdin
CheckoutIndex(env, data, stat, wt, opts, files, in, store) ==
    IF files # <<>> /\ opts.All
    THEN Ended(wt, "returned", Err("mix", <<>>))
    ELSE CheckoutLoaded(GitDirReadIndex(env, data, stat), wt, opts, files, in, store)

\* the index <git_dir>/index holds when GIT_INDEX_FILE names another file
OtherIndex == <<CheckoutEntry(PathB, Stage0, 1)>>

\* the index file of g
FileOf(objs) == WriteIndex([NewIndex EXCEPT !.Objects = objs]).bytes

\* the options of the calls
EnvOptions ==
    {[Blank EXCEPT !.Force = f, !.UpdateStat = u, !.All = a] :
        f \in BOOLEAN, u \in BOOLEAN, a \in BOOLEAN}

EnvInit ==
    /\ Objects = <<>>
    /\ Version = 2
    /\ NumberIndexEntries = 0
    /\ last = NoCall
    /\ loaded = NoLoad
    /\ worktree \in WorkTrees
    /\ TreeOk(worktree)
    /\ run = NoRun
    /\ refFile = NoRefFile
    /\ refGot = NoRef
    /\ stdin \in {NoStdin, [open |-> TRUE, bytes |-> StreamOf(<<PathA>>, 10, TRUE)]}
    /\ writer = NoWriter
    /\ \E objs \in CheckoutIndexes :
          \/ /\ envFile = NoEnvFile
             /\ indexFile = FileOf(objs)
             /\ indexStat = "ok"
          \/ /\ envFile = [set |-> TRUE, stat |-> "ok", bytes |-> FileOf(objs)]
             /\ \/ indexFile = <<>> /\ indexStat = "notexist"
                \/ indexFile = FileOf(OtherIndex) /\ indexStat = "ok"

\* the call has come back with r; what it persisted is in <git_dir>/index,
\* the file c.GitDir.Create(File("index")) makes
CheckoutReturned(opts, files, store, r) ==
    /\ Objects' = r.Objects
    /\ NumberIndexEntries' = Len(r.Objects)
    /\ worktree' = r.worktree
    /\ indexFile' = IF r.persisted THEN r.bytes ELSE indexFile
    /\ indexStat' = IF r.persisted THEN "ok" ELSE indexStat
    /\ run' = [opts |-> opts, files |-> files, store |-> store,
               stdout |-> r.stdout, log |-> r.log, ret |-> r.ret,
               reterr |-> r.reterr, killed |-> <<>>,
               listed |-> <<>>, persisted |-> r.persisted]
    /\ last' = Call("CheckoutIndex", <<>>, 0, FALSE, FALSE, r.reterr)

CallCheckoutIndex ==
    /\ last = NoCall
    /\ \E opts \in EnvOptions, files \in FileLists \cup {<<>>}, store \in Stores :
          CheckoutReturned(opts, files, store,
                           CheckoutIndex(envFile, indexFile, indexStat, worktree,
                                         opts, files, stdin, store))
    /\ UNCHANGED <<Version, loaded, refFile, refGot>>
    /\ UNCHANGED apart

EnvNext == CallCheckoutIndex

EnvSpec == EnvInit /\ [][EnvNext]_vars

----------------------------------------------------------------------------
(* One process persists the index while another reads the index file *)

\* the binary.Write calls of one iteration of the loop of WriteIndex, each
\* one write on the file
EntryWrites(entry, version) ==
    IF ExtendedFlag(entry) /\ (version = 2 \/ entry.Ext = NoExt)
    THEN <<EncodeFixed(entry)>>
    ELSE <<EncodeFixed(entry)>>
         \o (IF ExtendedFlag(entry) THEN <<BE16(entry.Ext)>> ELSE <<>>)
         \o <<entry.PathName, Zeros(WritePadding(entry))>>

RECURSIVE EntriesWrites(_, _, _)
EntriesWrites(objs, version, k) ==
    IF k > Len(objs) THEN <<>>
    ELSE IF WriteEntry(objs[k], version).err # NoErr
    THEN EntryWrites(objs[k], version)
    ELSE EntryWrites(objs[k], version) \o EntriesWrites(objs, version, k + 1)

\* the writes of WriteIndex on the file, in order: the header, the writes
\* of each entry, the digest
Writes(g) ==
    LET w == WriteIndex(g)
    IN  <<g.Signature \o BE32(g.Version) \o BE32(Len(w.Objects))>>
        \o EntriesWrites(w.Objects, g.Version, 1)
        \o (IF w.err = NoErr THEN <<Bytes(w.bytes, Len(w.bytes) - 20, 20)>> ELSE <<>>)

\* number of entries of the index on file and of the index that replaces it
MaxWriterEntries == 2

WriterShapes ==
    UNION {[1..n -> (1..MaxFileNameLen) \X BOOLEAN] : n \in 0..MaxWriterEntries}

\* the index file holds a whole index, another one is about to be persisted
WriterInit ==
    /\ \E shape \in WriterShapes :
          /\ Objects = Shaped(shape)
          /\ InOrder(Objects)
    /\ Version \in {2, 3}
    /\ (\E k \in 1..Len(Objects) : ExtendedFlag(Objects[k])) => Version = 3
    /\ NumberIndexEntries = Len(Objects)
    /\ last = NoCall
    /\ \E shape \in WriterShapes :
          /\ InOrder(Shaped(shape))
          /\ indexFile = WriteIndex([NewIndex EXCEPT !.Objects = Shaped(shape),
                                                    !.Version = 3]).bytes
    /\ indexStat = "ok"
    /\ loaded = NoLoad
    /\ worktree = EmptyTree
    /\ run = NoRun
    /\ refFile = NoRefFile
    /\ refGot = NoRef
    /\ stdin = NoStdin
    /\ writer = [NoWriter EXCEPT !.old = indexFile]
    /\ envFile = NoEnvFile

\* c.GitDir.Create(File("index")): the file is truncated
WriterCreate ==
    /\ writer.pc = "idle"
    /\ indexFile' = <<>>
    /\ indexStat' = "ok"
    /\ writer' = [pc |-> "writing", todo |-> Writes(G), old |-> indexFile]
    /\ UNCHANGED <<Objects, Version, NumberIndexEntries, last, loaded,
                   worktree, run, refFile, refGot, stdin, envFile>>

\* the next write of idx.WriteIndex(f)
WriterWrite ==
    /\ writer.pc = "writing"
    /\ indexFile' = indexFile \o Head(writer.todo)
    /\ writer' = [writer EXCEPT !.todo = Tail(@),
                                !.pc = IF Len(writer.todo) = 1 THEN "done" ELSE @]
    /\ UNCHANGED <<Objects, Version, NumberIndexEntries, last, loaded, indexStat,
                   worktree, run, refFile, refGot, stdin, envFile>>

\* GitDir.ReadIndex in the other process, on the file as it is
ReaderReadIndex ==
    /\ loaded' = ReadIndex(indexFile, indexStat)
    /\ last' = Call("ReadIndex", <<>>, 0, FALSE, FALSE, loaded'.err)
    /\ UNCHANGED <<Objects, Version, NumberIndexEntries, indexFile, indexStat,
                   worktree, run, refFile, refGot, stdin, writer, envFile>>

WriterNext ==
    \/ WriterCreate
    \/ WriterWrite
    \/ ReaderReadIndex

WriterSpec == WriterInit /\ [][WriterNext]_vars

----------------------------------------------------------------------------
(* Symbolic refs *)

\* "ref: "
RefPrefix == <<114, 101, 102, 58, 32>>

\* the bytes strings.TrimSpace takes for white space in 7-bit ASCII:
\* "\t", "\n", "\v", "\f", "\r" and " "
WhiteSpace == {9, 10, 11, 12, 13, 32}

RECURSIVE TrimLeft(_)
TrimLeft(s) ==
    IF s # <<>> /\ s[1] \in WhiteSpace THEN TrimLeft(Tail(s)) ELSE s

RECURSIVE TrimRight(_)
TrimRight(s) ==
    IF s # <<>> /\ s[Len(s)] \in WhiteSpace
    THEN TrimRight(SubSeq(s, 1, Len(s) - 1))
    ELSE s

TrimSpace(s) == TrimRight(TrimLeft(s))

\* the capacity ioutil.ReadAll gives its buffer before the first read
MinRead == 512

\* a slice whose capacity is its length
Cap_Len(value) == Len(value)

\* the capacity of the slice ioutil.ReadAll returns for a file of these
\* bytes: the buffer starts at MinRead and grows when the file is longer
Cap(value) == IF Len(value) <= MinRead THEN MinRead ELSE Len(value)

\* value[lo:hi] of the slice ReadAll returns, Go counting from 0: hi may go
\* up to the capacity, and the bytes of the buffer past the length are the
\* zero bytes it was made with; panics when the bounds are out of range
SliceOf(value, lo, hi) ==
    IF lo > hi \/ hi > Cap(value)
    THEN [panic |-> TRUE, bytes |-> <<>>]
    ELSE [panic |-> FALSE,
          bytes |-> <<>> \o [i \in 1..(hi - lo) |->
                                IF lo + i <= Len(value) THEN value[lo + i] ELSE 0]]

\* what a call of SymbolicRefGet gives: the RefSpec, or a panic
Got(value) == [called |-> TRUE, panic |-> FALSE, value |-> value]
RefPanicked == [called |-> TRUE, panic |-> TRUE, value |-> <<>>]

SymbolicRefGet(file) ==
    IF file.stat = "notexist" THEN Got(<<>>)
    ELSE IF file.stat = "isdir" THEN Got(<<>>)
    ELSE LET value == file.content
             prefix == SliceOf(value, 0, 5)
             rest == SliceOf(value, 5, Len(value))
         IN  IF prefix.panic THEN RefPanicked
             ELSE IF prefix.bytes # RefPrefix THEN Got(<<>>)
             ELSE IF rest.panic THEN RefPanicked
             ELSE Got(TrimSpace(rest.bytes))

\* the bytes after the prefix in the files read
MaxRefTail == 3
RefTailBytes == {9, 10, 32, 120}

\* the states of the symbolic-ref file: missing, a directory, or a file
\* whose first n <= 5 bytes are each the byte of "ref: " or an "x", followed
\* when n = 5 by up to MaxRefTail bytes
RefFiles(n, m) ==
    { [stat |-> "ok",
       content |-> <<>> \o [i \in 1..n |-> IF h[i] THEN RefPrefix[i] ELSE 120] \o t] :
         h \in [1..n -> BOOLEAN], t \in [1..m -> RefTailBytes] }

RefInit ==
    /\ Objects = NewIndex.Objects
    /\ Version = NewIndex.Version
    /\ NumberIndexEntries = NewIndex.NumberIndexEntries
    /\ last = NoCall
    /\ indexFile = <<>>
    /\ indexStat = "notexist"
    /\ loaded = NoLoad
    /\ worktree = EmptyTree
    /\ run = NoRun
    /\ \/ refFile = NoRefFile
       \/ refFile = [stat |-> "isdir", content |-> <<>>]
       \/ \E n \in 0..5, m \in 0..MaxRefTail :
             /\ n < 5 => m = 0
             /\ refFile \in RefFiles(n, m)
    /\ refGot = NoRef
    /\ Apart

CallSymbolicRefGet ==
    /\ ~refGot.called
    /\ refGot' = SymbolicRefGet(refFile)
    /\ UNCHANGED <<Objects, Version, NumberIndexEntries, last, indexFile,
                   indexStat, loaded, worktree, run, refFile>>
    /\ UNCHANGED apart

RefNext == CallSymbolicRefGet

RefSpec == RefInit /\ [][RefNext]_vars

----------------------------------------------------------------------------
(* Properties of the codec *)

\* the content of two entries is the same: every fixed field, the path, and
\* the extended flags word when the extended flag is set
SameEntry(a, b) ==
    /\ a.Ctime = b.Ctime /\ a.Ctimenano = b.Ctimenano /\ a.Mtime = b.Mtime
    /\ a.Dev = b.Dev /\ a.Ino = b.Ino /\ a.Mode = b.Mode
    /\ a.Uid = b.Uid /\ a.Gid = b.Gid /\ a.Fsize = b.Fsize
    /\ a.Sha1 = b.Sha1 /\ a.Flags = b.Flags /\ a.PathName = b.PathName
    /\ ExtendedFlag(a) => a.Ext = b.Ext

\* C1: reading back what WriteIndex wrote yields an index of the same
\* version, the same entry count and entry-for-entry equal content, and
\* writing that index again gives the same bytes.
C1_RoundTrip ==
    last.op = "ReadIndex" =>
        /\ loaded.err = NoErr
        /\ ~loaded.panic
        /\ loaded.idx.Version = Version
        /\ loaded.idx.NumberIndexEntries = Len(Objects)
        /\ Len(loaded.idx.Objects) = Len(Objects)
        /\ \A k \in 1..Len(Objects) : SameEntry(Objects[k], loaded.idx.Objects[k])
        /\ WriteIndex(loaded.idx).bytes = indexFile

\* the file ends in the digest of the bytes before it
TrailerOk(data) ==
    /\ Len(data) > 20
    /\ SubSeq(data, Len(data) - 19, Len(data)) = Sha1Sum(SubSeq(data, 1, Len(data) - 20))

\* ReadIndex returned InvalidIndex and no Index
Rejected == loaded.err = Err("InvalidIndex", <<>>) /\ loaded.idx = NoIndex

\* C12: reading a file whose trailing digest differs from the digest of the
\* bytes before it, or whose trailer is missing, fails with InvalidIndex and
\* returns no Index.
C12_TrailerVerified ==
    (last.op = "ReadIndex" /\ indexStat = "ok" /\ ~TrailerOk(indexFile)) => Rejected

\* C13: ReadIndex fails with InvalidIndex and returns no Index whenever the
\* signature of the file is not "DIRC" or its version is below 2, above 4,
\* or 4; only versions 2 and 3 ever produce an Index.
C13_VersionChecked ==
    (last.op = "ReadIndex" /\ indexStat = "ok") =>
        /\ (\/ Len(indexFile) < 12
            \/ SubSeq(indexFile, 1, 4) # <<68, 73, 82, 67>>
            \/ DE32(SubSeq(indexFile, 5, 8)) \notin {2, 3}) => Rejected
        /\ loaded.idx # NoIndex => loaded.idx.Version \in {2, 3}

\* C14: when the index file does not exist ReadIndex returns no error and a
\* new Index with signature "DIRC", version 2, NumberIndexEntries 0 and no
\* entries; any other failure to open the file is returned as an error.
C14_MissingFile ==
    last.op = "ReadIndex" =>
        /\ indexStat = "notexist" =>
              /\ loaded.err = NoErr
              /\ ~loaded.panic
              /\ loaded.idx.Signature = <<68, 73, 82, 67>>
              /\ loaded.idx.Version = 2
              /\ loaded.idx.NumberIndexEntries = 0
              /\ loaded.idx.Objects = <<>>
        /\ indexStat = "denied" =>
              /\ loaded.err # NoErr
              /\ loaded.idx = NoIndex

\* the file of an index with an entry was removed, or made unreadable, and
\* then read
C14_Witness ==
    /\ last.op = "ReadIndex"
    /\ indexStat \in {"notexist", "denied"}
    /\ Len(Objects) >= 1

\* C23: reading a version 2 file whose first entry has bit 14 (extended) of
\* its flags set fails with InvalidIndex and returns no Index.
C23_ExtendedOnV2 ==
    (/\ last.op = "ReadIndex" /\ indexStat = "ok"
     /\ Len(indexFile) >= 12 + 62
     /\ SubSeq(indexFile, 1, 4) = <<68, 73, 82, 67>>
     /\ DE32(SubSeq(indexFile, 5, 8)) = 2
     /\ DE32(SubSeq(indexFile, 9, 12)) >= 1
     /\ (DE16(SubSeq(indexFile, 73, 74)) \div 16384) % 2 = 1) => Rejected

\* the index file is a part of the file WriteIndex wrote, cut at its end
Truncated ==
    LET w == WriteIndex(G).bytes
    IN  Len(indexFile) < Len(w) /\ indexFile = Bytes(w, 0, Len(indexFile))

\* C24: reading a truncated index file (cut inside the header, after fewer
\* entries than the header declares, inside the fixed block or the path of
\* an entry) never panics: the read fails with InvalidIndex or returns an
\* Index, and no entry of a returned Index is nil.
C24_NoPanic ==
    (last.op = "ReadIndex" /\ indexStat = "ok" /\ Truncated) =>
        /\ ~loaded.panic
        /\ Rejected \/ (loaded.err = NoErr /\ loaded.idx # NoIndex)
        /\ \A k \in 1..Len(loaded.idx.Objects) : loaded.idx.Objects[k] # NilEntry

\* the NUL bytes WriteIndex put after the name of the entry whose bytes are b
PaddingOf(entry, b) ==
    Len(b) - 62 - (IF ExtendedFlag(entry) THEN 2 ELSE 0) - Len(entry.PathName)

RECURSIVE EntryStart(_, _, _)
\* the offset in the index file of entry k of objs, entries being laid out
\* one after the other from the end of the 12 byte header
EntryStart(objs, version, k) ==
    IF k = 1 THEN 12
    ELSE EntryStart(objs, version, k - 1) + Len(WriteEntry(objs[k - 1], version).bytes)

\* C11: every entry WriteIndex emits ends in 1 to 8 NUL bytes of padding and
\* its length (62 byte fixed block, 2 bytes if extended, path, padding) is a
\* multiple of 8, for every name length and both values of the extended flag.
C11_Padding ==
    (last.op = "WriteIndex" /\ last.err = NoErr) =>
        /\ \A k \in 1..Len(Objects) :
              LET start == EntryStart(Objects, Version, k)
                  stop == IF k = Len(Objects) THEN Len(indexFile) - 20
                          ELSE EntryStart(Objects, Version, k + 1)
                  b == SubSeq(indexFile, start + 1, stop)
                  padding == PaddingOf(Objects[k], b)
              IN  /\ padding \in 1..8
                  /\ Len(b) % 8 = 0
                  /\ SubSeq(b, Len(b) - padding + 1, Len(b)) = Zeros(padding)
                  /\ SubSeq(b, Len(b) - padding - Len(Objects[k].PathName) + 1,
                            Len(b) - padding) = Objects[k].PathName
        /\ (Len(indexFile) - 32) % 8 = 0

\* an index was written whose entries take the least and the most padding,
\* one of them with the extended flag and one with a name of 0xFFF bytes or more
C11_Witness ==
    /\ last.op = "WriteIndex" /\ last.err = NoErr
    /\ Len(Objects) = 2
    /\ \E j, k \in 1..2 :
          /\ WritePadding(Objects[j]) = 1
          /\ WritePadding(Objects[k]) = 8
    /\ \E k \in 1..2 : ExtendedFlag(Objects[k])
    /\ \E k \in 1..2 : Len(Objects[k].PathName) >= NameMask

\* the bytes of entry k of the index in the file WriteIndex wrote
EntryBytes(k) ==
    SubSeq(indexFile, EntryStart(Objects, Version, k) + 1,
           IF k = Len(Objects) THEN Len(indexFile) - 20
           ELSE EntryStart(Objects, Version, k + 1))

\* the entry has a name shorter than 0xFFF
ShortName(entry) == Len(entry.PathName) < NameMask

\* C21 as stated: the padding bytes WriteIndex emits after a name shorter
\* than 0xFFF and the bytes ReadIndexEntry skips after it both equal
\* 8 - ((62 + (2 if extended) + name_len + 4) mod 8).
C21_PaddingFrom62 ==
    (last.op = "WriteIndex" /\ last.err = NoErr) =>
        \A k \in 1..Len(Objects) :
           ShortName(Objects[k]) =>
              LET ext == IF ExtendedFlag(Objects[k]) THEN 2 ELSE 0
                  n == Len(Objects[k].PathName)
                  padding == 8 - ((62 + ext + n + 4) % 8)
              IN  /\ PaddingOf(Objects[k], EntryBytes(k)) = padding
                  /\ ReadPadding(ExtendedFlag(Objects[k]), n) = padding

\* C21 amended: the padding bytes WriteIndex emits after a name shorter than
\* 0xFFF and the bytes ReadIndexEntry skips after it both equal
\* 8 - ((62 + (2 if extended) + name_len) mod 8), the 1 to 8 bytes that
\* bring the entry to a multiple of 8.
C21_PaddingAgrees ==
    (last.op = "WriteIndex" /\ last.err = NoErr) =>
        \A k \in 1..Len(Objects) :
           ShortName(Objects[k]) =>
              LET ext == IF ExtendedFlag(Objects[k]) THEN 2 ELSE 0
                  n == Len(Objects[k].PathName)
                  padding == 8 - ((62 + ext + n) % 8)
              IN  /\ PaddingOf(Objects[k], EntryBytes(k)) = padding
                  /\ ReadPadding(ExtendedFlag(Objects[k]), n) = padding

\* an index was written with two entries of names shorter than 0xFFF, one
\* with the extended flag and one without, of different padding
C21_Witness ==
    /\ last.op = "WriteIndex" /\ last.err = NoErr
    /\ Len(Objects) = 2
    /\ ShortName(Objects[1]) /\ ShortName(Objects[2])
    /\ ExtendedFlag(Objects[1]) # ExtendedFlag(Objects[2])
    /\ PaddingOf(Objects[1], EntryBytes(1)) # PaddingOf(Objects[2], EntryBytes(2))

\* the offset in the index file of the first byte after entry k: the next
\* entry, or the trailer
EntryStop(k) ==
    IF k = Len(Objects) THEN Len(indexFile) - 20
    ELSE EntryStart(Objects, Version, k + 1)

\* C22: for every written entry whose name is 0xFFF bytes or longer, with
\* or without the extended flag, ReadIndexEntry started at the first byte of
\* the entry reads the entry without error and stops at the first byte of
\* the next entry, or of the trailer: its scan for the NUL and its skip of
\* 8 - ((off + 4) mod 8) bytes consume exactly the padding.
C22_LongNameSkip ==
    (last.op = "WriteIndex" /\ last.err = NoErr) =>
        \A k \in 1..Len(Objects) :
           ~ShortName(Objects[k]) =>
              LET r == ReadIndexEntry(indexFile, EntryStart(Objects, Version, k), Version)
              IN  /\ r.err = NoErr /\ ~r.panic
                  /\ r.entry.PathName = Objects[k].PathName
                  /\ r.pos = EntryStop(k)

----------------------------------------------------------------------------
(* Properties of checkout-index *)

CheckedOut(l) == l.op = "CheckoutIndexUncommited"

\* the files a call goes through: the paths of the index with opts.All
Requested(objs, r) ==
    IF r.opts.All THEN [k \in 1..Len(objs) |-> objs[k].PathName] ELSE r.files

IsRequested(objs, r, path) ==
    \E j \in 1..Len(Requested(objs, r)) : Requested(objs, r)[j] = path

\* the events of the log about entry k of the index
EntryEvents(r, k) ==
    SelectSeq(r.log, LAMBDA e : e.ev \in {"get", "temp", "refresh"} /\ e.n = k)

\* the lines on os.Stderr about entry k of the index
EntryErrors(r, k) == SelectSeq(r.log, LAMBDA e : e.ev = "stderr" /\ e.n = k)

\* the files the loop went through, in the order of the log
Visited(r) ==
    LET v == SelectSeq(r.log, LAMBDA e : e.ev = "file")
    IN  [j \in 1..Len(v) |-> v[j].path]

\* C15: the killed files are handled before any file is materialized. With
\* force off and a killed file, the call returns an error that lists every
\* killed file, no file of the working tree is created, overwritten or
\* removed, no temporary file is made and the index is not persisted. With
\* force on, every killed file is removed and the call goes on: a plain call
\* (stage "", no temp, no no-create) that returns without error has written
\* the blob of every requested stage 0 entry whose blob the store holds and
\* whose path is not a parent or child of another requested entry.
C15_KilledFirst ==
    [][(CheckedOut(last') /\ Len(run'.killed) > 0) =>
          IF ~run'.opts.Force
          THEN /\ run'.ret = "returned"
               /\ run'.reterr.kind = "killed"
               /\ run'.listed = run'.killed
               /\ worktree' = worktree
               /\ Objects' = Objects
               /\ indexFile' = indexFile /\ indexStat' = indexStat
               /\ ~run'.persisted
               /\ run'.log = <<>> /\ run'.stdout = <<>>
          ELSE /\ \A i \in 1..Len(run'.killed) :
                     worktree'[run'.killed[i]] # worktree[run'.killed[i]]
               /\ (/\ run'.opts.Stage = "" /\ ~run'.opts.Temp /\ ~run'.opts.NoCreate
                   /\ run'.ret = "returned" /\ run'.reterr = NoErr) =>
                     \A k \in 1..Len(Objects) :
                        (/\ Stage(Objects[k]) = Stage0
                         /\ IsRequested(Objects, run', Objects[k].PathName)
                         /\ GetObjectOk(run'.store, Objects[k].Sha1)
                         /\ \A j \in 1..Len(Objects) :
                               IsRequested(Objects, run', Objects[j].PathName)
                               => ~Related(Objects[j].PathName, Objects[k].PathName))
                        => FileAt(worktree', run'.opts.Prefix \o Objects[k].PathName)
                              = Written(Objects[k].Sha1[20])]_vars

\* a call with force removed a directory that stood where the file of an
\* entry goes and wrote the blob of the entry there
C15_Witness ==
    /\ CheckedOut(last) /\ run.opts.Force /\ run.opts.Stage = ""
    /\ run.ret = "returned" /\ run.reterr = NoErr
    /\ \E i \in 1..Len(run.killed) :
          /\ worktree[run.killed[i]].kind = "file"
          /\ \E k \in 1..Len(Objects) :
                /\ Objects[k].PathName = run.killed[i]
                /\ worktree[run.killed[i]] = Written(Objects[k].Sha1[20])

\* a call without force, without temp and without prefix
PlainCall(r) == ~r.opts.Force /\ ~r.opts.Temp /\ r.opts.Prefix = <<>>

\* entry k was left alone by the call: its file is as it was, no object was
\* read, no temporary file made and no stat field refreshed for it, and no
\* line on os.Stderr is about it
LeftAlone(k) ==
    /\ worktree'[Objects[k].PathName] = worktree[Objects[k].PathName]
    /\ EntryEvents(run', k) = <<>>
    /\ Objects'[k] = Objects[k]
    /\ EntryErrors(run', k) = <<>>

\* C16 as stated: with force off, temp off and an empty prefix, at any
\* stage option, every requested entry whose file is clean is left alone and
\* no error is printed for it.
C16_CleanSkippedAnyStage ==
    [][(CheckedOut(last') /\ PlainCall(run')) =>
          \A k \in 1..Len(Objects) :
             (/\ IsRequested(Objects, run', Objects[k].PathName)
              /\ IsClean(worktree, Objects[k].PathName, Objects[k].Sha1))
             => LeftAlone(k)]_vars

\* C16 amended: with force off, temp off, an empty prefix and a stage option
\* other than "all", every requested entry whose file is clean is left
\* alone and no error is printed for it.
C16_CleanSkipped ==
    [][(CheckedOut(last') /\ PlainCall(run') /\ run'.opts.Stage # "all") =>
          \A k \in 1..Len(Objects) :
             (/\ IsRequested(Objects, run', Objects[k].PathName)
              /\ IsClean(worktree, Objects[k].PathName, Objects[k].Sha1))
             => LeftAlone(k)]_vars

\* a plain call returned without error, having skipped a stage 0 entry whose
\* file is clean and read the blob of another entry
C16_Witness ==
    /\ CheckedOut(last) /\ PlainCall(run) /\ run.opts.Stage = ""
    /\ run.ret = "returned" /\ run.reterr = NoErr
    /\ \E k \in 1..Len(Objects) :
          /\ Stage(Objects[k]) = Stage0
          /\ IsRequested(Objects, run, Objects[k].PathName)
          /\ IsClean(worktree, Objects[k].PathName, Objects[k].Sha1)
          /\ worktree[Objects[k].PathName] = OnDisk(Objects[k].Sha1[20])
          /\ EntryEvents(run, k) = <<>>
    /\ \E i \in 1..Len(run.log) : run.log[i].ev = "get" /\ run.log[i].what = "ok"

\* C17: the files of a call are gone through in the order given (index
\* order with all), and but for the calls that fail on the killed files, on
\* an unmerged entry or on the stage option, every file is gone through
\* whatever fails for a file before it, and with update-stat the index is
\* persisted at the end.
C17_BatchContinues ==
    (CheckedOut(last) /\ run.reterr.kind \notin {"killed", "unmerged", "invalid stage"}) =>
        /\ Visited(run) = Requested(Objects, run)
        /\ run.opts.UpdateStat => (run.persisted /\ indexStat = "ok")

\* the consequence of C18 for entry k of the file at place j: the call failed
\* with "Index has unmerged entries", went through no later file and did not
\* materialize the entry
AbortedAt(j, k) ==
    /\ run.ret = "returned"
    /\ run.reterr.kind = "unmerged"
    /\ \A i \in 1..Len(run.log) : run.log[i].ev = "file" => run.log[i].n <= j
    /\ EntryEvents(run, k) = <<>>
    /\ ~run.persisted

\* C18 as stated: with stage "", whenever a requested path has an entry at
\* stage 1-3 the call fails with "Index has unmerged entries" and stops at
\* once, whatever force is and whether or not the file is clean.
C18_UnmergedAborts ==
    (CheckedOut(last) /\ run.opts.Stage = "") =>
        \A j \in 1..Len(Requested(Objects, run)), k \in 1..Len(Objects) :
           (/\ Objects[k].PathName = Requested(Objects, run)[j]
            /\ Stage(Objects[k]) # Stage0)
           => AbortedAt(j, k)

\* C18 amended: with stage "", in a call that does not fail on the killed
\* files, whenever a requested path has an entry at stage 1-3 that is not
\* skipped as clean (force off, temp off, empty prefix, file clean), the call
\* fails with "Index has unmerged entries" and stops at once.
C18_UnmergedUnlessClean ==
    (/\ CheckedOut(last) /\ run.opts.Stage = ""
     /\ ~(Len(run.killed) > 0 /\ ~run.opts.Force)) =>
        \A j \in 1..Len(Requested(Objects, run)), k \in 1..Len(Objects) :
           (/\ Objects[k].PathName = Requested(Objects, run)[j]
            /\ Stage(Objects[k]) # Stage0
            /\ ~(PlainCall(run) /\ IsClean(worktree, Objects[k].PathName, Objects[k].Sha1)))
           => AbortedAt(j, k)

\* a call with force wrote the file of its first file and failed on the
\* stage 1-3 entry of its second file, whose file is clean
C18_Witness ==
    /\ CheckedOut(last) /\ run.opts.Stage = "" /\ run.opts.Force
    /\ run.reterr.kind = "unmerged"
    /\ Len(Visited(run)) = 2
    /\ \E i \in 1..Len(run.log) : run.log[i].ev = "get" /\ run.log[i].what = "ok"
    /\ \E k \in 1..Len(Objects) :
          /\ Objects[k].PathName = Visited(run)[2]
          /\ Stage(Objects[k]) # Stage0
          /\ IsClean(worktree, Objects[k].PathName, Objects[k].Sha1)

\* C25: a call refreshes the stat fields of an entry only when the prefix
\* is empty and update-stat is set: with a prefix, without update-stat, with
\* temp or with stage "all", every entry of the index is after the call what
\* it was before it.
C25_StatRefreshOnly ==
    [][(/\ CheckedOut(last')
        /\ \/ run'.opts.Prefix # <<>>
           \/ ~run'.opts.UpdateStat
           \/ run'.opts.Temp
           \/ run'.opts.Stage = "all") => Objects' = Objects]_vars

\* a call with update-stat and a prefix wrote the blob of an entry under the
\* prefix, where the file of the entry itself holds another blob, and
\* persisted the index
C25_Witness ==
    /\ CheckedOut(last) /\ run.opts.UpdateStat /\ run.opts.Prefix # <<>>
    /\ run.ret = "returned" /\ run.reterr = NoErr /\ run.persisted
    /\ \E k \in 1..Len(Objects) :
          /\ \E i \in 1..Len(run.log) :
                run.log[i] = Ev("get", Objects[k].PathName, "ok", k)
          /\ worktree[run.opts.Prefix \o Objects[k].PathName] = Written(Objects[k].Sha1[20])
          /\ worktree[Objects[k].PathName].kind = "file"
          /\ worktree[Objects[k].PathName].size # Objects[k].Fsize

RECURSIVE Pieces(_, _)
\* the parts of a stream between its delimiters
Pieces(bytes, delim) ==
    LET at == {i \in 1..Len(bytes) : bytes[i] = delim}
    IN  IF at = {} THEN <<bytes>>
        ELSE <<SubSeq(bytes, 1, Min(at) - 1)>>
             \o Pieces(SubSeq(bytes, Min(at) + 1, Len(bytes)), delim)

\* the items of a stream: its parts, but for the empty part after a last
\* delimiter
Items(bytes, delim) ==
    LET p == Pieces(bytes, delim)
    IN  IF p[Len(p)] = <<>> THEN SubSeq(p, 1, Len(p) - 1) ELSE p

\* C26: a call on a stream makes one CheckoutIndexUncommited call for every
\* item of the stream, in the order of the stream, the last item as well when
\* no delimiter follows it, goes on after an item that fails, and returns.
C26_EveryItem ==
    (last.op = "CheckoutIndexFromReaderUncommited" /\ stdin.open) =>
        /\ run.files = Items(stdin.bytes, Delim(run.opts))
        /\ run.ret = "returned"

\* C27: whatever the writer has done when the other process reads the index
\* file, the read returns the whole index the file held before the writer
\* began or the whole index the writer persists, never an error, a panic or
\* an index made from a part of the new file.
C27_WholeIndex ==
    last.op = "ReadIndex" =>
        \/ loaded = ReadIndex(writer.old, "ok")
        \/ loaded = ReadIndex(WriteIndex(G).bytes, "ok")

\* C28: when GIT_INDEX_FILE names the index file, a CheckoutIndex call with
\* update-stat that returns no error leaves in that file the index it has
\* refreshed, and leaves <git_dir>/index as it was.
C28_SameFile ==
    [][(/\ last'.op = "CheckoutIndex"
        /\ envFile.set
        /\ run'.opts.UpdateStat
        /\ run'.ret = "returned"
        /\ run'.reterr = NoErr)
       => (/\ envFile'.bytes = FileOf(Objects')
           /\ indexFile' = indexFile
           /\ indexStat' = indexStat)]_vars

\* C29: after an AddStage call that returns no error, made directly or by
\* AddFile, the index holds an entry for the path and stage of the call whose
\* mode and hash are the ones passed to the call, whether the entry is new
\* or was there before.
C29_ModeAndHash ==
    (last.op \in {"AddStage", "AddFile"} /\ last.err = NoErr) =>
        \E k \in 1..Len(Objects) :
            /\ Objects[k].PathName = last.path
            /\ Stage(Objects[k]) = last.stage
            /\ Objects[k].Mode = last.mode
            /\ Objects[k].Sha1 = last.sha

RECURSIVE Distinct(_)
\* the paths of a list, each once, in the order of their first place
Distinct(paths) ==
    IF paths = <<>> THEN <<>>
    ELSE LET front == Distinct(SubSeq(paths, 1, Len(paths) - 1))
             p == paths[Len(paths)]
         IN  IF \E i \in 1..Len(front) : front[i] = p THEN front ELSE Append(front, p)

RECURSIVE StageAllRecords(_, _, _, _, _)
\* the records of C19 for the paths from place j on, temps temporary files
\* having been made before
StageAllRecords(objs, paths, delim, j, temps) ==
    IF j > Len(paths) THEN <<>>
    ELSE IF ~IndexPathOk(paths[j]) \/ HasEntry(objs, paths[j], Stage0)
    THEN StageAllRecords(objs, paths, delim, j + 1, temps)
    ELSE LET has(s) == HasEntry(objs, paths[j], s)
             t1 == temps + (IF has(Stage1) THEN 1 ELSE 0)
             t2 == t1 + (IF has(Stage2) THEN 1 ELSE 0)
             t3 == t2 + (IF has(Stage3) THEN 1 ELSE 0)
             name(s, t) == IF has(s) THEN TempName(t) ELSE <<46>>
         IN  name(Stage1, t1) \o <<32>> \o name(Stage2, t2) \o <<32>> \o name(Stage3, t3)
             \o <<9>> \o paths[j] \o <<delim>>
             \o StageAllRecords(objs, paths, delim, j + 1, t3)

\* C19: with stage "all", in a call that does not fail on the killed files
\* and finds every blob, os.Stdout holds for every requested path without a
\* stage 0 entry, whatever stages 1-3 it has, exactly one record
\* "<n1> <n2> <n3>\t<path><delim>", ni the name of the temporary file of
\* stage i or "." when the stage is missing, and the call goes on to the
\* next file and returns.
C19_StageAllRecord ==
    (/\ CheckedOut(last) /\ run.opts.Stage = "all"
     /\ ~(Len(run.killed) > 0 /\ ~run.opts.Force)
     /\ run.store = {1, 2}) =>
        /\ run.ret = "returned"
        /\ run.stdout = StageAllRecords(Objects, Distinct(Requested(Objects, run)),
                                        Delim(run.opts), 1, 0)

----------------------------------------------------------------------------
(* Properties of the symbolic refs *)

BeginsWith(s, prefix) ==
    Len(s) >= Len(prefix) /\ SubSeq(s, 1, Len(prefix)) = prefix

\* v is s without the white space at its two ends
TrimmedOf(s, v) ==
    \E i \in 1..(Len(s) + 1), j \in 0..Len(s) :
        /\ i <= j + 1
        /\ v = SubSeq(s, i, j)
        /\ \A k \in 1..(i - 1) : s[k] \in WhiteSpace
        /\ \A k \in (j + 1)..Len(s) : s[k] \in WhiteSpace
        /\ v # <<>> => (v[1] \notin WhiteSpace /\ v[Len(v)] \notin WhiteSpace)

\* C20: for every content of the symbolic-ref file, the contents shorter
\* than 5 bytes and the empty file as well, SymbolicRefGet does not fail; it
\* returns what follows "ref: " without the white space at its two ends when
\* the content begins with the 5 bytes "ref: ", and the empty value
\* otherwise.
C20_SymbolicRefGet ==
    refGot.called =>
        /\ ~refGot.panic
        /\ IF refFile.stat = "ok" /\ BeginsWith(refFile.content, RefPrefix)
           THEN TrimmedOf(SubSeq(refFile.content, 6, Len(refFile.content)),
                          refGot.value)
           ELSE refGot.value = <<>>

\* the file held "ref: " and a value with white space before and after it,
\* and the value was returned without the white space
C20_Witness ==
    /\ refGot.called /\ ~refGot.panic
    /\ refFile.stat = "ok" /\ BeginsWith(refFile.content, RefPrefix)
    /\ Len(refFile.content) = 8
    /\ refFile.content[6] \in WhiteSpace /\ refFile.content[8] \in WhiteSpace
    /\ refGot.value = <<120>>

----------------------------------------------------------------------------
(* Properties of the index under its mutation operations *)

\* the order of the index: paths byte by byte, a shorter prefix first
PathBefore(p, q) ==
    \E k \in 1..(Len(p) + 1) :
        /\ k <= Len(q)
        /\ \A i \in 1..(k - 1) : p[i] = q[i]
        /\ (k = Len(p) + 1 \/ p[k] < q[k])

\* then the stage
EntryBefore(a, b) ==
    \/ PathBefore(a.PathName, b.PathName)
    \/ a.PathName = b.PathName /\ Stage(a) < Stage(b)

AddCalls == {"AddStage", "AddFile"}

\* C2: after any sequence of AddStage, AddFile, RemoveFile,
\* RemoveUnmergedStages and SetSkipWorktree calls the entry list is strictly
\* increasing by path, then stage; no two entries share (path, stage).
C2_Sorted ==
    \A k \in 1..(Len(Objects) - 1) : EntryBefore(Objects[k], Objects[k + 1])

\* a new entry was appended and sorted to the front of the other entries
C2_Witness ==
    /\ last.op = "AddStage" /\ last.err = NoErr /\ ~last.existed
    /\ Len(Objects) >= 2
    /\ Objects[1].PathName = last.path /\ Stage(Objects[1]) = last.stage

\* C3: for every path the index holds either exactly one stage 0 entry or
\* only entries at stages 1-3.
C3_StageExclusive ==
    \A k \in 1..Len(Objects) :
        Stage(Objects[k]) = Stage0 =>
            \A j \in 1..Len(Objects) :
                Objects[j].PathName = Objects[k].PathName => j = k

\* C4: a call of AddStage that returns an error leaves the entries, the
\* entry count and the version as they were.
C4_AddStageAtomic ==
    [][(last'.op = "AddStage" /\ last'.err # NoErr) =>
          /\ Objects' = Objects
          /\ NumberIndexEntries' = NumberIndexEntries
          /\ Version' = Version]_vars

\* C5: after a successful AddStage at stage 0 the path has exactly one
\* entry, at stage 0, and every entry whose path is neither the path nor a
\* parent or child of it is kept.
C5_AddStage0 ==
    [][(last'.op \in AddCalls /\ last'.stage = Stage0 /\ last'.err = NoErr) =>
          /\ Cardinality({k \in 1..Len(Objects') :
                             Objects'[k].PathName = last'.path}) = 1
          /\ HasEntry(Objects', last'.path, Stage0)
          /\ \A k \in 1..Len(Objects) :
                (/\ Objects[k].PathName # last'.path
                 /\ ~Related(Objects[k].PathName, last'.path))
                => \E j \in 1..Len(Objects') : Objects'[j] = Objects[k]]_vars

\* a stage 0 AddStage succeeded on a path that had stage 1-3 entries, next
\* to another entry
C5_Witness ==
    /\ last.op = "AddStage" /\ last.stage = Stage0 /\ last.err = NoErr
    /\ last.unmerged
    /\ Len(Objects) >= 2

\* C6: AddStage at stage 0 without replace fails with an error naming a
\* conflicting path whenever the index holds a parent or child of the path,
\* and the failed call adds and drops no entry.
C6_ConflictRejected ==
    [][(/\ last'.op = "AddStage" /\ last'.stage = Stage0 /\ ~last'.replace
        /\ HasRelated(Objects, last'.path)) =>
          /\ last'.err.kind \in {"existing", "parent"}
          /\ HasPath(Objects, last'.err.path)
          /\ Related(last'.err.path, last'.path)
          /\ Objects' = Objects]_vars

\* C7 as stated: after a successful AddStage with replace, at any stage, no
\* parent or child of the path remains.
C7_ReplaceAnyStage ==
    (last.op \in AddCalls /\ last.replace /\ last.err = NoErr) =>
        ~HasRelated(Objects, last.path)

\* C7 amended: after a successful AddStage with replace at stage 0, no
\* parent or child of the path remains.
C7_ReplaceStage0 ==
    (last.op \in AddCalls /\ last.replace /\ last.stage = Stage0
     /\ last.err = NoErr) =>
        ~HasRelated(Objects, last.path)

\* a stage 0 AddStage with replace succeeded while the index held a parent
\* or child of the path
C7_Witness ==
    /\ last.op = "AddStage" /\ last.replace /\ last.stage = Stage0
    /\ last.err = NoErr /\ last.related

\* C8: NumberIndexEntries equals the number of entries in Objects.
C8_Count == NumberIndexEntries = Len(Objects)

\* an AddStage with replace dropped the parent or child entries and added a
\* new entry next to one that stayed
C8_Witness ==
    /\ last.op = "AddStage" /\ last.replace /\ last.related /\ ~last.existed
    /\ last.err = NoErr /\ last.stage = Stage0
    /\ Len(Objects) >= 2 /\ NumberIndexEntries >= 2

\* C9: the version is 3 if and only if some entry has its extended flag
\* set, and 2 otherwise.
C9_VersionIffExtended ==
    /\ Version \in {2, 3}
    /\ Version = 3 <=> \E k \in 1..Len(Objects) : ExtendedFlag(Objects[k])

\* C10: after SetSkipWorktree(p, true) returns without error the version is
\* at least 3 and p has a stage 0 entry with the extended flag and the
\* skip-worktree bit set; when p has only stage 1-3 entries the call
\* returns an error and changes neither the entries nor the version.
C10_SkipWorktree ==
    [][(last'.op = "SetSkipWorktree" /\ last'.value) =>
          /\ last'.err = NoErr =>
                /\ Version' >= 3
                /\ \E k \in 1..Len(Objects') :
                      /\ Objects'[k].PathName = last'.path
                      /\ Stage(Objects'[k]) = Stage0
                      /\ ExtendedFlag(Objects'[k])
                      /\ SkipWorktree(Objects'[k])
          /\ (HasPath(Objects, last'.path) /\ ~HasEntry(Objects, last'.path, Stage0)) =>
                /\ last'.err # NoErr
                /\ Objects' = Objects
                /\ Version' = Version]_vars

====
